---- MODULE Spec2Model ----
(***************************************************************************)
(* Model of the wire-format transcoding layer of grpckit (marshalers.go):  *)
(* the pooled byte buffers, the JSON value builder, type inference, the    *)
(* form codec's key/value tree construction, multipart boundary detection *)
(* and decoding, the binary and text marshalers, and the marshaler         *)
(* registry of the server options (options.go).                            *)
(*                                                                         *)
(* Conventions.  A Go string or []byte is a sequence of one-character      *)
(* strings.  A value of Go's interface{} is a record tagged by its dynamic *)
(* type in field t.  An int64 is its sign and its canonical decimal        *)
(* magnitude (a digit sequence), so that the full 64-bit range is          *)
(* represented without machine integers.                                   *)
(***************************************************************************)
EXTENDS Integers, Sequences, FiniteSets, TLC

VARIABLES
  bufferPool,   \* sync.Pool contents: buffer id -> number of times it is pooled
  bufs,         \* the bytes.Buffer objects: id -> [data, cap]
  call,         \* per caller: the marshalJSON / marshalJSONWithBytes invocation
  infer,        \* an inferType invocation: [pc, s, out]
  form,         \* a valuesToJSON / populateFromMultipart invocation
  json,         \* a marshalJSON invocation on a concrete value tree
  mp,           \* a detectBoundary invocation: [pc, data, boundary]
  codec,        \* a Marshal / Unmarshal / Decode invocation of a marshaler
  msg,          \* the value handed to that invocation as v (the target message)
  cfg           \* serverConfig.marshalers: MIME type -> marshaler

vars == <<bufferPool, bufs, call, infer, form, json, mp, codec, msg, cfg>>

None == [t |-> "none"]

Max(a, b) == IF a >= b THEN a ELSE b

RECURSIVE SumN(_)
SumN(chunks) ==
  IF chunks = <<>> THEN 0 ELSE Head(chunks) + SumN(Tail(chunks))

(***************************************************************************)
(* Strings and numbers                                                     *)
(***************************************************************************)

Digits == {"0", "1", "2", "3", "4", "5", "6", "7", "8", "9"}

DigitSeq == <<"0", "1", "2", "3", "4", "5", "6", "7", "8", "9">>

DigitVal(c) == (CHOOSE i \in 1..Len(DigitSeq) : DigitSeq[i] = c) - 1

\* strings.Contains(s, c) for a one-character c.
Contains(s, c) == \E i \in 1..Len(s) : s[i] = c

\* strings.HasPrefix
HasPrefix(s, pre) == Len(s) >= Len(pre) /\ SubSeq(s, 1, Len(pre)) = pre

\* s[i:] for a 1-based i
From(s, i) == SubSeq(s, i, Len(s))

\* bytes.Index(s, sep): the 1-based index of the first occurrence, 0 if none.
Index(s, sep) ==
  LET hits == {i \in 1..(Len(s) - Len(sep) + 1) : SubSeq(s, i, i + Len(sep) - 1) = sep}
  IN IF hits = {} THEN 0 ELSE CHOOSE i \in hits : \A j \in hits : i <= j

RECURSIVE StripLeadingZeros(_)
StripLeadingZeros(ds) ==
  IF ds # <<>> /\ Head(ds) = "0" THEN StripLeadingZeros(Tail(ds)) ELSE ds

RECURSIVE StripTrailingZeros(_)
StripTrailingZeros(ds) ==
  IF ds # <<>> /\ ds[Len(ds)] = "0"
  THEN StripTrailingZeros(SubSeq(ds, 1, Len(ds) - 1)) ELSE ds

\* The canonical magnitude of a digit string: no leading zeros, "0" for zero.
Magnitude(ds) ==
  IF StripLeadingZeros(ds) = <<>> THEN <<"0">> ELSE StripLeadingZeros(ds)

\* Lexicographic comparison of two digit strings of equal length.
RECURSIVE LexLess(_, _)
LexLess(a, b) ==
  IF a = <<>> THEN FALSE
  ELSE IF Head(a) # Head(b) THEN DigitVal(Head(a)) < DigitVal(Head(b))
  ELSE LexLess(Tail(a), Tail(b))

\* a < b for canonical magnitudes.
MagLess(a, b) ==
  \/ Len(a) < Len(b)
  \/ Len(a) = Len(b) /\ LexLess(a, b)

\* 2^63 = 9223372036854775808, the magnitude of the least int64.
Two63 == <<"9", "2", "2", "3", "3", "7", "2", "0", "3", "6", "8", "5", "4",
           "7", "7", "5", "8", "0", "8">>

\* The value of a (short) digit string as a number.
RECURSIVE DigitsToNat(_)
DigitsToNat(ds) ==
  IF ds = <<>> THEN 0
  ELSE 10 * DigitsToNat(SubSeq(ds, 1, Len(ds) - 1)) + DigitVal(ds[Len(ds)])

\* The dynamic values of interface{}.
NilV == [t |-> "nil"]
BoolV(b) == [t |-> "bool", v |-> b]
Int64V(neg, mag) == [t |-> "int64", v |-> [neg |-> neg /\ mag # <<"0">>, mag |-> mag]]
StringV(s) == [t |-> "string", v |-> s]
ArrayV(items) == [t |-> "array", v |-> items]
ObjectV(m) == [t |-> "object", v |-> m]
BytesV(s) == [t |-> "bytes", v |-> s]
\* a value of any other Go type (a struct, an int, ...)
OtherV == [t |-> "other"]

\* A float64, kept as the decimal it was parsed from: sign, significant
\* digits without leading or trailing zeros, and the power of ten of the last
\* significant digit.  Zero has no digits (and keeps its sign).
Float64V(neg, ds, e) ==
  LET lead == StripLeadingZeros(ds)
      sig == StripTrailingZeros(lead)
  IN [t |-> "float64",
      v |-> [neg |-> neg, mant |-> sig,
             exp |-> IF sig = <<>> THEN 0 ELSE e + (Len(lead) - Len(sig))]]

(***************************************************************************)
(* strconv.ParseInt / strconv.ParseFloat as inferType uses them            *)
(***************************************************************************)

\* strconv.ParseInt(s, 10, 64): an optional '+' or '-', then one or more
\* decimal digits (no underscores in base 10); a value outside
\* [-2^63, 2^63-1] is a range error.
ParseInt(s) ==
  LET signed == s # <<>> /\ s[1] \in {"+", "-"}
      neg == s # <<>> /\ s[1] = "-"
      ds == IF signed THEN Tail(s) ELSE s
      mag == Magnitude(ds)
  IN IF ds = <<>> \/ \E i \in 1..Len(ds) : ds[i] \notin Digits
     THEN [ok |-> FALSE, err |-> "syntax"]
     ELSE IF (neg /\ MagLess(Two63, mag)) \/ (~neg /\ ~MagLess(mag, Two63))
     THEN [ok |-> FALSE, err |-> "range"]
     ELSE [ok |-> TRUE, val |-> Int64V(neg, mag)]

\* readFloat's mantissa loop from index i: digits and at most one '.'.
\* Yields the index after the mantissa, the digits read and how many of them
\* follow the '.'.
RECURSIVE ScanMantissa(_, _, _, _, _)
ScanMantissa(s, i, sawdot, ds, frac) ==
  IF i > Len(s) THEN [i |-> i, ds |-> ds, frac |-> frac]
  ELSE IF s[i] = "." /\ ~sawdot THEN ScanMantissa(s, i + 1, TRUE, ds, frac)
  ELSE IF s[i] \in Digits
  THEN ScanMantissa(s, i + 1, sawdot, Append(ds, s[i]), IF sawdot THEN frac + 1 ELSE frac)
  ELSE [i |-> i, ds |-> ds, frac |-> frac]

\* strconv.ParseFloat(s, 64) on decimal input: sign, mantissa with at least
\* one digit, optional exponent 'e' [sign] digits, nothing after it; a
\* magnitude beyond the float64 range (about 1.8e308) is a range error.
ParseFloat(s) ==
  LET signed == s # <<>> /\ s[1] \in {"+", "-"}
      neg == s # <<>> /\ s[1] = "-"
      m == ScanMantissa(s, IF signed THEN 2 ELSE 1, FALSE, <<>>, 0)
      hasExp == m.i <= Len(s) /\ s[m.i] = "e"
      esigned == hasExp /\ m.i + 1 <= Len(s) /\ s[m.i + 1] \in {"+", "-"}
      eneg == esigned /\ s[m.i + 1] = "-"
      eds == IF hasExp THEN From(s, IF esigned THEN m.i + 2 ELSE m.i + 1) ELSE <<>>
      edsOk == eds # <<>> /\ \A i \in 1..Len(eds) : eds[i] \in Digits
      e == IF hasExp /\ edsOk
           THEN (IF eneg THEN 0 - DigitsToNat(eds) ELSE DigitsToNat(eds)) ELSE 0
      val == Float64V(neg, m.ds, e - m.frac)
  IN IF m.ds = <<>> THEN [ok |-> FALSE, err |-> "syntax"]
     ELSE IF hasExp /\ ~edsOk THEN [ok |-> FALSE, err |-> "syntax"]
     ELSE IF ~hasExp /\ m.i <= Len(s) THEN [ok |-> FALSE, err |-> "syntax"]
     ELSE IF val.v.mant # <<>> /\ Len(val.v.mant) + val.v.exp - 1 > 308
     THEN [ok |-> FALSE, err |-> "range"]
     ELSE [ok |-> TRUE, val |-> val]

TrueStr == <<"t", "r", "u", "e">>
FalseStr == <<"f", "a", "l", "s", "e">>

\* inferType(s)
inferType_FloatWithoutDot(s) ==
  IF s = TrueStr THEN BoolV(TRUE)
  ELSE IF s = FalseStr THEN BoolV(FALSE)
  ELSE IF ParseInt(s).ok THEN ParseInt(s).val
  ELSE IF ParseFloat(s).ok THEN ParseFloat(s).val
  ELSE StringV(s)

inferType(s) ==
  IF s = TrueStr THEN BoolV(TRUE)
  ELSE IF s = FalseStr THEN BoolV(FALSE)
  ELSE IF ParseInt(s).ok THEN ParseInt(s).val
  ELSE IF ParseFloat(s).ok /\ Contains(s, ".") THEN ParseFloat(s).val
  ELSE StringV(s)

(***************************************************************************)
(* Buffer pool (marshalers.go:24-46)                                       *)
(***************************************************************************)

\* putBuffer's threshold, 64*1024.
MaxPooledCap == 65536

\* Bounds of the pool model.
NumCallers == 2
NumBufs == 2
MaxWrites == 2

Callers == 1..NumCallers
BufIds == 1..NumBufs

\* Sizes of one Write into a buffer, chosen around the threshold.
WriteSizes == {MaxPooledCap \div 2, MaxPooledCap + 1}

\* new(bytes.Buffer): the zero buffer.
NewBuffer == [data |-> <<>>, cap |-> 0]

\* bytes.Buffer.Len
BufLen(b) == SumN(b.data)

\* bytes.Buffer.Reset: length 0, the storage (capacity) is kept.
BufReset(b) == [b EXCEPT !.data = <<>>]

\* bytes.Buffer.Write of n bytes: the storage is reused when the bytes fit,
\* and otherwise grown to max(2*cap, len+n).  The data is kept as the
\* sequence of the sizes written.
BufWrite(b, n) ==
  [data |-> Append(b.data, n),
   cap  |-> IF BufLen(b) + n <= b.cap THEN b.cap
            ELSE Max(2 * b.cap, BufLen(b) + n)]

\* Buffers some caller holds.
Held == {call[p].buf : p \in {q \in Callers : call[q].buf # 0}}

\* Buffer ids that are garbage: neither pooled nor held.
FreeIds == {b \in BufIds : bufferPool[b] = 0 /\ b \notin Held}

PooledIds == {b \in BufIds : bufferPool[b] > 0}

\* putBuffer(buf) on pool contents pool and buffers bs: the new <<pool, bs>>.
putBuffer_NoReset(pool, bs, b) ==
  IF bs[b].cap > MaxPooledCap
  THEN <<pool, [bs EXCEPT ![b] = NewBuffer]>>
  ELSE <<[pool EXCEPT ![b] = @ + 1], bs>>

putBuffer_LimitOffByOne(pool, bs, b) ==
  IF bs[b].cap >= MaxPooledCap
  THEN <<pool, [bs EXCEPT ![b] = NewBuffer]>>
  ELSE <<[pool EXCEPT ![b] = @ + 1], [bs EXCEPT ![b] = BufReset(@)]>>

putBuffer(pool, bs, b) ==
  IF bs[b].cap > MaxPooledCap
  THEN \* not pooled: the buffer becomes garbage
       <<pool, [bs EXCEPT ![b] = NewBuffer]>>
  ELSE <<[pool EXCEPT ![b] = @ + 1], [bs EXCEPT ![b] = BufReset(@)]>>

\* getBuffer(): bufferPool.Get() hands out a pooled buffer, or a buffer made
\* by New (sync.Pool may do so even when buffers are pooled); a new buffer
\* takes the least unused id.  The set of possible <<buffer, new pool, new bs>>.
getBuffer(pool, bs) ==
  {<<b, [pool EXCEPT ![b] = @ - 1], bs>> : b \in {x \in BufIds : pool[x] > 0}}
  \cup
  {<<b, pool, [bs EXCEPT ![b] = NewBuffer]>> :
     b \in {x \in FreeIds : \A y \in FreeIds : x <= y}}

IdleCall == [pc |-> "idle", fn |-> "none", buf |-> 0, puts |-> 0, res |-> None]

InitPool ==
  /\ bufferPool = [b \in BufIds |-> 0]
  /\ bufs = [b \in BufIds |-> NewBuffer]
  /\ call = [p \in Callers |-> IdleCall]

\* No other component is running.
IdleInfer == [pc |-> "off", s |-> <<>>, out |-> None]
IdleForm == [pc |-> "off"]
IdleJson == [pc |-> "off"]
IdleMp == [pc |-> "off"]
IdleCodec == [pc |-> "off"]
IdleMsg == [t |-> "none"]
IdleCfg == [m \in {} |-> "none"]

\* No marshaler is being invoked and nothing is registered.
NoCodec == codec = IdleCodec /\ msg = IdleMsg /\ cfg = IdleCfg

Fns == {"marshalJSON", "marshalJSONWithBytes"}

\* marshalJSON / marshalJSONWithBytes entry: buf := getBuffer(); defer putBuffer(buf)
MarshalCall(p) ==
  /\ call[p].pc \in {"idle", "returned"}
  /\ \E fn \in Fns, g \in getBuffer(bufferPool, bufs) :
       /\ bufferPool' = g[2]
       /\ bufs' = g[3]
       /\ call' = [call EXCEPT ![p] = [pc |-> "acquired", fn |-> fn, buf |-> g[1],
                                       puts |-> 0, res |-> None]]
  /\ UNCHANGED <<infer, form, json, mp, codec, msg, cfg>>

\* One w.Write / fmt.Fprintf of writeJSON (writeJSONWithBytes) into the buffer.
WriterWrite(p) ==
  /\ call[p].pc \in {"acquired", "writing"}
  /\ Len(bufs[call[p].buf].data) < MaxWrites
  /\ \E n \in WriteSizes :
       bufs' = [bufs EXCEPT ![call[p].buf] = BufWrite(@, n)]
  /\ call' = [call EXCEPT ![p].pc = "writing"]
  /\ UNCHANGED <<bufferPool, infer, form, json, mp, codec, msg, cfg>>

\* The result of marshalJSON: (nil, err) on error, else (a copy of
\* buf.Bytes(), nil); of the copy only its being there is kept.
MarshalResult(failed, b) ==
  IF failed THEN [data |-> "nil", err |-> "unsupported type"]
  ELSE [data |-> "copy", err |-> "nil"]

\* The function returns with result r: the deferred putBuffer(buf) runs.
DeferredReturn(p, r) ==
  LET put == putBuffer(bufferPool, bufs, call[p].buf)
  IN /\ bufferPool' = put[1]
     /\ bufs' = put[2]
     /\ call' = [call EXCEPT ![p].pc = "returned", ![p].buf = 0,
                             ![p].puts = @ + 1, ![p].res = r]

\* writeJSON returned nil (every value writes at least one byte): the buffer
\* is copied into the result and the function returns.
MarshalReturnOk(p) ==
  /\ call[p].pc = "writing"
  /\ DeferredReturn(p, MarshalResult(FALSE, call[p].buf))
  /\ UNCHANGED <<infer, form, json, mp, codec, msg, cfg>>

\* writeJSON returned the "unsupported type" error, at once for an
\* unsupported top-level value (marshalJSON only: marshalJSONWithBytes is given
\* a map and writes "{" first) or after part of the output was written: the
\* function returns (nil, err).
MarshalReturnErr_NoPut(p) ==
  /\ \/ call[p].pc = "writing"
     \/ call[p].pc = "acquired" /\ call[p].fn = "marshalJSON"
  /\ bufferPool' = bufferPool
  /\ bufs' = [bufs EXCEPT ![call[p].buf] = NewBuffer]
  /\ call' = [call EXCEPT ![p].pc = "returned", ![p].buf = 0,
                          ![p].res = MarshalResult(TRUE, call[p].buf)]
  /\ UNCHANGED <<infer, form, json, mp, codec, msg, cfg>>

MarshalReturnErr(p) ==
  /\ \/ call[p].pc = "writing"
     \/ call[p].pc = "acquired" /\ call[p].fn = "marshalJSON"
  /\ DeferredReturn(p, MarshalResult(TRUE, call[p].buf))
  /\ UNCHANGED <<infer, form, json, mp, codec, msg, cfg>>

\* sync.Pool may drop a pooled item at any time (garbage collection).
PoolGC(b) ==
  /\ bufferPool[b] > 0
  /\ bufferPool' = [bufferPool EXCEPT ![b] = @ - 1]
  /\ bufs' = IF bufferPool[b] = 1 /\ b \notin Held
             THEN [bufs EXCEPT ![b] = NewBuffer] ELSE bufs
  /\ UNCHANGED <<call, infer, form, json, mp, codec, msg, cfg>>

InitPoolSpec ==
  /\ InitPool
  /\ NoCodec
  /\ infer = IdleInfer
  /\ form = IdleForm
  /\ json = IdleJson
  /\ mp = IdleMp

NextPool ==
  \/ \E p \in Callers : MarshalCall(p)
  \/ \E p \in Callers : WriterWrite(p)
  \/ \E p \in Callers : MarshalReturnOk(p)
  \/ \E p \in Callers : MarshalReturnErr(p)
  \/ \E b \in BufIds : PoolGC(b)

SpecPool == InitPoolSpec /\ [][NextPool]_vars

\* C1: every buffer handed out by getBuffer has length 0: a caller that has
\* just acquired its buffer sees none of a previous holder's bytes, and no
\* two callers hold the same buffer.
C1_AcquiredEmpty ==
  /\ \A p \in Callers :
       call[p].pc = "acquired" => BufLen(bufs[call[p].buf]) = 0
  /\ \A p, q \in Callers :
       (p # q /\ call[p].buf # 0) => call[p].buf # call[q].buf

\* A caller has acquired a buffer that an earlier holder wrote into, grew
\* and released.
C1_Witness ==
  \E p \in Callers :
    /\ call[p].pc = "acquired"
    /\ bufs[call[p].buf].cap > 0
    /\ \E q \in Callers : call[q].pc = "returned" /\ call[q].res.err = "nil"

C2_PoolBounded == \A b \in PooledIds : bufs[b].cap <= MaxPooledCap

C2_RetainIff ==
  \A p \in Callers :
    (call[p].buf # 0 /\ call'[p].buf = 0) =>
       LET b == call[p].buf
       IN IF bufs[b].cap <= MaxPooledCap
          THEN bufferPool'[b] = bufferPool[b] + 1 /\ bufs'[b].cap = bufs[b].cap
          ELSE bufferPool'[b] = 0

\* C2: putBuffer retains a buffer if and only if its capacity at release is
\* at most 64 KiB (a capacity of exactly 64 KiB is retained, a larger one is
\* dropped), and no pooled buffer ever has a capacity above 64 KiB.
C2_RetainedIffWithinLimit == []C2_PoolBounded /\ [][C2_RetainIff]_vars

\* A buffer of capacity exactly 64 KiB is in the pool.
C2_Witness == \E b \in PooledIds : bufs[b].cap = MaxPooledCap

\* C3: every marshalJSON / marshalJSONWithBytes call that has acquired a
\* buffer holds it until it returns and has released it exactly once when it
\* has returned, whether the writer succeeded or failed.
C3_ReleasedExactlyOnce ==
  \A p \in Callers :
    /\ call[p].pc \in {"acquired", "writing"} =>
         call[p].buf # 0 /\ call[p].puts = 0
    /\ call[p].pc = "returned" => call[p].buf = 0 /\ call[p].puts = 1

\* Both functions have returned, one after a writer error and one after a
\* success.
C3_Witness ==
  \E p, q \in Callers :
    /\ call[p].pc = "returned" /\ call[p].res.err = "unsupported type"
    /\ call[p].fn = "marshalJSONWithBytes"
    /\ call[q].pc = "returned" /\ call[q].res.err = "nil"
    /\ call[q].fn = "marshalJSON"

(***************************************************************************)
(* Type inference on its own (marshalers.go:205-230)                       *)
(***************************************************************************)

\* Bound: the tokens are all the strings up to this length over InferAlphabet,
\* and a few longer ones.
MaxTokenLen == 3

InferAlphabet == {"0", "1", "-", "+", ".", "e", "a"}

RECURSIVE StringsUpTo(_, _)
StringsUpTo(A, n) ==
  IF n = 0 THEN {<<>>}
  ELSE LET shorter == StringsUpTo(A, n - 1)
       IN shorter \cup {Append(x, c) : x \in shorter, c \in A}

\* 2^63 - 1 and 2^63 + 1
MaxInt64Str == <<"9", "2", "2", "3", "3", "7", "2", "0", "3", "6", "8", "5",
                 "4", "7", "7", "5", "8", "0", "7">>
Two63Plus1 == <<"9", "2", "2", "3", "3", "7", "2", "0", "3", "6", "8", "5",
                "4", "7", "7", "5", "8", "0", "9">>

LongTokens ==
  { TrueStr, FalseStr, <<"T", "r", "u", "e">>, <<"t", "r", "u", "e", "e">>,
    MaxInt64Str, Two63, <<"-">> \o Two63, <<"-">> \o Two63Plus1,
    <<"0", "0", "0", "0", "7">>, <<"-", "4", "5", "6">>,
    <<"3", ".", "1", "4", "0">>, <<"1", ".", "e", "9", "9", "9">>,
    <<"1", ".", "5", "e", "-", "2">>, <<"h", "e", "l", "l", "o">> }

InferInputs == StringsUpTo(InferAlphabet, MaxTokenLen) \cup LongTokens

InitInfer ==
  /\ InitPool
  /\ NoCodec
  /\ infer \in {[pc |-> "start", s |-> s, out |-> None] : s \in InferInputs}
  /\ form = IdleForm
  /\ json = IdleJson
  /\ mp = IdleMp

\* A call inferType(s).
InferCall ==
  /\ infer.pc = "start"
  /\ infer' = [infer EXCEPT !.pc = "done", !.out = inferType(infer.s)]
  /\ UNCHANGED <<bufferPool, bufs, call, form, json, mp, codec, msg, cfg>>

NextInfer == InferCall

SpecInfer == InitInfer /\ [][NextInfer]_vars

C4_IsDigits(ds) == ds # <<>> /\ \A i \in 1..Len(ds) : ds[i] \in Digits

\* "a base-10 integer with only an optional leading '-'"
C4_IsMinusInteger(s) ==
  \/ C4_IsDigits(s)
  \/ s # <<>> /\ s[1] = "-" /\ C4_IsDigits(Tail(s))

\* an optional leading '+' or '-', then digits
C4_IsSignedInteger(s) ==
  \/ C4_IsDigits(s)
  \/ s # <<>> /\ s[1] \in {"+", "-"} /\ C4_IsDigits(Tail(s))

C4_IntegerOf(s) ==
  IF s[1] \in {"+", "-"} THEN Int64V(s[1] = "-", Magnitude(Tail(s)))
  ELSE Int64V(FALSE, Magnitude(s))

\* the integer fits in int64: -2^63 <= value <= 2^63 - 1
C4_FitsInt64(s) ==
  LET n == C4_IntegerOf(s).v
  IN IF n.neg THEN ~MagLess(Two63, n.mag) ELSE MagLess(n.mag, Two63)

C4_OriginalRule(s) ==
  IF s = TrueStr THEN BoolV(TRUE)
  ELSE IF s = FalseStr THEN BoolV(FALSE)
  ELSE IF C4_IsMinusInteger(s) THEN C4_IntegerOf(s)
  ELSE IF Contains(s, ".") /\ ParseFloat(s).ok THEN ParseFloat(s).val
  ELSE StringV(s)

C4_AmendedRule(s) ==
  IF s = TrueStr THEN BoolV(TRUE)
  ELSE IF s = FalseStr THEN BoolV(FALSE)
  ELSE IF C4_IsSignedInteger(s) /\ C4_FitsInt64(s) THEN C4_IntegerOf(s)
  ELSE IF Contains(s, ".") /\ ParseFloat(s).ok THEN ParseFloat(s).val
  ELSE StringV(s)

\* C4 as claimed: inferType(s) is the result of the first matching rule, the
\* integer rule being "digits with only an optional leading '-'".
C4_Original_MinusOnlyIntegers ==
  infer.pc = "done" => infer.out = C4_OriginalRule(infer.s)

\* C4 as amended: inferType is total and returns the result of the first
\* matching rule, where the integer rule is: an optional leading '+' or '-'
\* followed by decimal digits whose value fits in int64.
C4_InferTypePrecedence ==
  infer.pc = "done" =>
    /\ infer.out.t \in {"bool", "int64", "float64", "string"}
    /\ infer.out = C4_AmendedRule(infer.s)

\* inferType("+1") has returned the integer 1.
C4_Witness ==
  /\ infer.pc = "done"
  /\ infer.s = <<"+", "1">>
  /\ infer.out = Int64V(FALSE, <<"1">>)

(***************************************************************************)
(* JSON value builder (marshalers.go:232-309, 624-717)                     *)
(***************************************************************************)

Zeros(n) == [i \in 1..n |-> "0"]

RECURSIVE NatToDigits(_)
NatToDigits(n) ==
  IF n < 10 THEN <<DigitSeq[n + 1]>>
  ELSE NatToDigits(n \div 10) \o <<DigitSeq[(n % 10) + 1]>>

\* fmt "%d" of an int64
FormatInt(n) == (IF n.neg THEN <<"-">> ELSE <<>>) \o n.mag

\* fmt "%g" of a float64: the shortest digits, in exponent form when the
\* decimal exponent is below -4 or at least 6 (zero prints as 0 or -0).
FormatG(f) ==
  LET nd == Len(f.mant)
      dp == nd + f.exp
      x == dp - 1
      sign == IF f.neg THEN <<"-">> ELSE <<>>
      ax == IF x < 0 THEN 0 - x ELSE x
      expo == <<"e", IF x < 0 THEN "-" ELSE "+">>
              \o (IF ax < 10 THEN <<"0">> ELSE <<>>) \o NatToDigits(ax)
      intPart == IF dp <= 0 THEN <<"0">>
                 ELSE IF dp >= nd THEN f.mant \o Zeros(dp - nd)
                 ELSE SubSeq(f.mant, 1, dp)
      fracPart == IF dp >= nd THEN <<>>
                  ELSE IF dp <= 0 THEN <<".">> \o Zeros(0 - dp) \o f.mant
                  ELSE <<".">> \o SubSeq(f.mant, dp + 1, nd)
  IN IF nd = 0 THEN sign \o <<"0">>
     ELSE IF x < 0 - 4 \/ x >= 6
     THEN sign \o <<f.mant[1]>>
          \o (IF nd > 1 THEN <<".">> \o SubSeq(f.mant, 2, nd) ELSE <<>>) \o expo
     ELSE sign \o intPart \o fracPart

\* Characters TLA+ has no escape for, by name: the control characters BEL
\* (byte 7), BS (8), VT (11), SOH (1) and DEL (127), the byte 0xFF (which is
\* not valid UTF-8), the printable letter U+00E9 and the unprintable U+0080.
Bel == "BEL"
Bs == "BS"
Vt == "VT"
Soh == "SOH"
Del == "DEL"
BadByte == "0xFF"
Eacute == "U+00E9"
Pad == "U+0080"

\* One character inside fmt "%q" (strconv.Quote): the quote and the
\* backslash are escaped; \a \b \f \n \r \t \v are written as these Go
\* escapes; another control character, DEL or a byte that is not UTF-8 as
\* \x and two hex digits; an unprintable rune up to U+FFFF as \u and four
\* hex digits; a printable rune as it is.
QuoteChar(c) ==
  CASE c = "\"" -> <<"\\", "\"">>
    [] c = "\\" -> <<"\\", "\\">>
    [] c = "\n" -> <<"\\", "n">>
    [] c = "\r" -> <<"\\", "r">>
    [] c = "\t" -> <<"\\", "t">>
    [] c = "\f" -> <<"\\", "f">>
    [] c = Bel -> <<"\\", "a">>
    [] c = Bs -> <<"\\", "b">>
    [] c = Vt -> <<"\\", "v">>
    [] c = Soh -> <<"\\", "x", "0", "1">>
    [] c = Del -> <<"\\", "x", "7", "f">>
    [] c = BadByte -> <<"\\", "x", "f", "f">>
    [] c = Pad -> <<"\\", "u", "0", "0", "8", "0">>
    [] OTHER -> <<c>>

RECURSIVE QuoteBody(_)
QuoteBody(s) ==
  IF s = <<>> THEN <<>> ELSE QuoteChar(Head(s)) \o QuoteBody(Tail(s))

\* fmt "%q" of a string
Quote(s) == <<"\"">> \o QuoteBody(s) \o <<"\"">>

\* What a writeJSON call leaves behind: the bytes written to w and the error.
Wrote(out) == [out |-> out, err |-> "nil"]

NullStr == <<"n", "u", "l", "l">>

RECURSIVE WriteValue(_, _)
RECURSIVE WriteArrayFrom(_, _, _)
RECURSIVE WriteArrayFrom_CommaBeforeEach(_, _, _)
RECURSIVE WriteObjectFrom(_, _, _, _)

\* The loop over the items of a []interface{} from index i on: a comma
\* before every item but the first; the first error ends the loop.
WriteArrayFrom_CommaBeforeEach(items, i, withBytes) ==
  IF i > Len(items) THEN {Wrote(<<>>)}
  ELSE UNION {
         IF r.err # "nil" THEN {[out |-> <<",">> \o r.out, err |-> r.err]}
         ELSE {[out |-> <<",">> \o r.out \o rest.out, err |-> rest.err] :
                 rest \in WriteArrayFrom_CommaBeforeEach(items, i + 1, withBytes)}
         : r \in WriteValue(items[i], withBytes)}

WriteArrayFrom(items, i, withBytes) ==
  LET sep == IF i > 1 THEN <<",">> ELSE <<>>
  IN IF i > Len(items) THEN {Wrote(<<>>)}
     ELSE UNION {
            IF r.err # "nil" THEN {[out |-> sep \o r.out, err |-> r.err]}
            ELSE {[out |-> sep \o r.out \o rest.out, err |-> rest.err] :
                    rest \in WriteArrayFrom(items, i + 1, withBytes)}
            : r \in WriteValue(items[i], withBytes)}

\* The loop over a map[string]interface{}: Go ranges over the remaining keys
\* in an unspecified order; a comma before every pair but the first.
WriteObjectFrom(m, left, first, withBytes) ==
  LET sep == IF first THEN <<>> ELSE <<",">>
  IN IF left = {} THEN {Wrote(<<>>)}
     ELSE UNION { UNION {
            IF r.err # "nil"
            THEN {[out |-> sep \o Quote(k) \o <<":">> \o r.out, err |-> r.err]}
            ELSE {[out |-> sep \o Quote(k) \o <<":">> \o r.out \o rest.out,
                   err |-> rest.err] :
                    rest \in WriteObjectFrom(m, left \ {k}, FALSE, withBytes)}
            : r \in WriteValue(m[k], withBytes)} : k \in left}

\* writeJSON (withBytes = FALSE) and writeJSONWithBytes (withBytes = TRUE):
\* the type switch.  The set of possible <<bytes written, error>>.
WriteValue(v, withBytes) ==
  CASE v.t = "nil" -> {Wrote(NullStr)}
    [] v.t = "bool" -> {Wrote(IF v.v THEN TrueStr ELSE FalseStr)}
    [] v.t = "int64" -> {Wrote(FormatInt(v.v))}
    [] v.t = "float64" -> {Wrote(FormatG(v.v))}
    [] v.t = "string" -> {Wrote(Quote(v.v))}
    [] v.t = "bytes" /\ withBytes -> {Wrote(Quote(v.v))}
    [] v.t = "array" ->
         {[out |-> <<"[">> \o r.out \o (IF r.err = "nil" THEN <<"]">> ELSE <<>>),
           err |-> r.err] : r \in WriteArrayFrom(v.v, 1, withBytes)}
    [] v.t = "object" ->
         {[out |-> <<"{">> \o r.out \o (IF r.err = "nil" THEN <<"}">> ELSE <<>>),
           err |-> r.err] : r \in WriteObjectFrom(v.v, DOMAIN v.v, TRUE, withBytes)}
    [] OTHER -> {[out |-> <<>>, err |-> "unsupported type"]}

writeJSON(v) == WriteValue(v, FALSE)

writeJSONWithBytes(v) == WriteValue(v, TRUE)

\* What marshalJSON returns once the writer has left w in the buffer:
\* (nil, err) on error, else a copy of the buffer's bytes.
marshalResult_PrefixOnError(w) ==
  [data |-> w.out, isNil |-> FALSE, err |-> w.err]

marshalResult(w) ==
  IF w.err # "nil" THEN [data |-> <<>>, isNil |-> TRUE, err |-> w.err]
  ELSE [data |-> w.out, isNil |-> FALSE, err |-> "nil"]

\* A whole marshalJSON(v) / marshalJSONWithBytes(v) call run without
\* interleaving: getBuffer, the writer, the result, the deferred putBuffer.
\* The set of possible <<result, new bufferPool, new bufs>>.
MarshalAtomic(v, withBytes) ==
  {LET b == g[1]
       n == Len(w.out)
       written == [g[3] EXCEPT ![b] = IF n = 0 THEN @ ELSE BufWrite(@, n)]
       put == putBuffer(g[2], written, b)
   IN <<marshalResult(w), put[1], put[2]>> :
     w \in WriteValue(v, withBytes), g \in getBuffer(bufferPool, bufs)}

marshalJSON(v) == MarshalAtomic(v, FALSE)

\* marshalJSONWithBytes first copies the map entry by entry ([]byte values
\* are kept as they are), then writes the copy.
marshalJSONWithBytes(m) ==
  LET converted == [k \in DOMAIN m |-> m[k]]
  IN MarshalAtomic(ObjectV(converted), TRUE)

(***************************************************************************)
(* marshalJSON on value trees                                              *)
(***************************************************************************)

\* Bound: the longest array among the value trees.
MaxItems == 2

SeqsUpTo(S, n) == UNION {[1..k -> S] : k \in 0..n}

ObjectsOver(K, S) == UNION {[D -> S] : D \in SUBSET K}

JKeys == {<<"a">>, <<"b">>}

HiStr == <<"h", "i">>

JLeaves ==
  { NilV, BoolV(TRUE), BoolV(FALSE), Int64V(FALSE, <<"4", "2">>),
    Int64V(TRUE, <<"7">>), StringV(HiStr), StringV(<<>>),
    Float64V(FALSE, <<"1", "5">>, 0 - 1), OtherV }

JNested ==
  { ArrayV(<<>>), ArrayV(<<Int64V(FALSE, <<"4", "2">>), StringV(HiStr)>>),
    ArrayV(<<BoolV(TRUE), OtherV>>), ObjectV([k \in {} |-> NilV]),
    ObjectV([k \in JKeys |-> IF k = <<"a">> THEN NilV ELSE StringV(HiStr)]),
    ObjectV([k \in {<<"a">>} |-> BytesV(HiStr)]), StringV(HiStr) }

JSONInputs ==
  JLeaves \cup {BytesV(HiStr)}
  \cup {ArrayV(x) : x \in SeqsUpTo(JLeaves, MaxItems)}
  \cup {ObjectV(m) : m \in ObjectsOver(JKeys, JLeaves)}
  \cup {ArrayV(x) : x \in SeqsUpTo(JNested, MaxItems)}
  \cup {ObjectV(m) : m \in ObjectsOver(JKeys, JNested)}

InitJSON ==
  /\ InitPool
  /\ NoCodec
  /\ infer = IdleInfer
  /\ form = IdleForm
  /\ json \in {[pc |-> "start", v |-> v, res |-> None] : v \in JSONInputs}
  /\ mp = IdleMp

\* A call marshalJSON(v).
MarshalJSONCall ==
  /\ json.pc = "start"
  /\ \E r \in marshalJSON(json.v) :
       /\ json' = [json EXCEPT !.pc = "done", !.res = r[1]]
       /\ bufferPool' = r[2]
       /\ bufs' = r[3]
  /\ UNCHANGED <<call, infer, form, mp, codec, msg, cfg>>

NextJSON == MarshalJSONCall

SpecJSON == InitJSON /\ [][NextJSON]_vars

\* The tree holds only nil, bool, int64, string, array and object values.
RECURSIVE C8_InShape(_)
C8_InShape(v) ==
  CASE v.t \in {"nil", "bool", "int64", "string"} -> TRUE
    [] v.t = "array" -> \A i \in 1..Len(v.v) : C8_InShape(v.v[i])
    [] v.t = "object" -> \A k \in DOMAIN v.v : C8_InShape(v.v[k])
    [] OTHER -> FALSE

RECURSIVE C8_Join(_, _)
C8_Join(parts, sep) ==
  IF parts = <<>> THEN <<>>
  ELSE IF Len(parts) = 1 THEN parts[1]
  ELSE parts[1] \o sep \o C8_Join(Tail(parts), sep)

\* The orders in which the keys K can appear, each key exactly once.
C8_Orders(K) ==
  {o \in [1..Cardinality(K) -> K] : \A i, j \in 1..Cardinality(K) : o[i] = o[j] => i = j}

RECURSIVE C8_Expected(_)
RECURSIVE C8_Parts(_)
\* One output per element, in order.
C8_Parts(items) ==
  IF items = <<>> THEN {<<>>}
  ELSE {<<h>> \o t : h \in C8_Expected(Head(items)), t \in C8_Parts(Tail(items))}

\* The outputs the claim allows for a value.
C8_Expected(v) ==
  CASE v.t = "nil" -> {<<"n", "u", "l", "l">>}
    [] v.t = "bool" -> {IF v.v THEN <<"t", "r", "u", "e">> ELSE <<"f", "a", "l", "s", "e">>}
    [] v.t = "int64" -> {IF v.v.neg THEN <<"-">> \o v.v.mag ELSE v.v.mag}
    [] v.t = "string" -> {<<"\"">> \o v.v \o <<"\"">>}
    [] v.t = "array" ->
         {<<"[">> \o C8_Join(parts, <<",">>) \o <<"]">> : parts \in C8_Parts(v.v)}
    [] v.t = "object" ->
         UNION {
           {<<"{">> \o C8_Join([i \in 1..Len(o) |->
                                  <<"\"">> \o o[i] \o <<"\"", ":">> \o parts[i]], <<",">>)
                   \o <<"}">> :
              parts \in C8_Parts([i \in 1..Len(o) |-> v.v[o[i]]])}
           : o \in C8_Orders(DOMAIN v.v)}

\* C8: for a tree of nil, bool, int64, string, array and object values (the
\* strings needing no escape), marshalJSON succeeds and its output is null,
\* true/false, the decimal digits, the double-quoted string, '[' elements
\* joined by commas ']' or '{' "key":value pairs joined by commas '}' with
\* every key exactly once in some order.
C8_OutputShape ==
  (json.pc = "done" /\ C8_InShape(json.v)) =>
    /\ json.res.err = "nil"
    /\ ~json.res.isNil
    /\ json.res.data \in C8_Expected(json.v)

\* A two-key object holding a two-element array has been written.
C8_Witness ==
  /\ json.pc = "done"
  /\ json.v.t = "object"
  /\ DOMAIN json.v.v = JKeys
  /\ json.v.v[<<"a">>].t = "array"
  /\ Len(json.v.v[<<"a">>].v) = 2
  /\ C8_InShape(json.v)
  /\ json.res.err = "nil"

\* The tree holds, at some depth, a value outside the tagged union.
RECURSIVE C9_HasUnsupported(_)
C9_HasUnsupported(v) ==
  CASE v.t \in {"nil", "bool", "int64", "float64", "string"} -> FALSE
    [] v.t = "array" -> \E i \in 1..Len(v.v) : C9_HasUnsupported(v.v[i])
    [] v.t = "object" -> \E k \in DOMAIN v.v : C9_HasUnsupported(v.v[k])
    [] OTHER -> TRUE

\* C9: marshalJSON of a tree holding an unsupported value at any depth
\* returns the "unsupported type" error and no bytes at all.
C9_UnsupportedRejected ==
  (json.pc = "done" /\ C9_HasUnsupported(json.v)) =>
    /\ json.res.err = "unsupported type"
    /\ json.res.isNil
    /\ json.res.data = <<>>

\* The unsupported value came after output had already been written.
C9_Witness ==
  /\ json.pc = "done"
  /\ json.v.t = "array"
  /\ Len(json.v.v) = 2
  /\ json.v.v[1].t = "array"
  /\ json.v.v[2] = ObjectV([k \in {<<"a">>} |-> BytesV(HiStr)])
  /\ json.res.err = "unsupported type"

(***************************************************************************)
(* Multipart boundary detection (marshalers.go:546-562)                    *)
(***************************************************************************)

\* Bound: the payloads are all the strings up to this length over
\* PayloadAlphabet, and a few longer ones.
MaxPayloadLen == 4

PayloadAlphabet == {"-", "X", "\r", "\n"}

CRLF == <<"\r", "\n">>
LF == <<"\n">>
DashDash == <<"-", "-">>

LongPayloads ==
  { <<"-", "-", "X", "Y", "Z", "1", "2", "3", "\r", "\n", "C", ":", "\r", "\n">>,
    <<"-", "-", "X", "Y", "Z", "\n", "C", ":", "\n">>,
    <<"j", "u", "s", "t", " ", "d", "a", "t", "a">>,
    <<"-", "-", "X", "\n", "a", "\r", "\n", "b">> }

Payloads == StringsUpTo(PayloadAlphabet, MaxPayloadLen) \cup LongPayloads

\* strings.TrimPrefix
TrimPrefix(s, pre) == IF HasPrefix(s, pre) THEN From(s, Len(pre) + 1) ELSE s

\* detectBoundary(data)
detectBoundary(data) ==
  LET crlf == Index(data, CRLF)
      idx == IF crlf = 0 THEN Index(data, LF) ELSE crlf
      line == SubSeq(data, 1, idx - 1)
  IN IF idx = 0 THEN <<>>
     ELSE IF HasPrefix(line, DashDash) THEN TrimPrefix(line, DashDash)
     ELSE <<>>

InitBoundary ==
  /\ InitPool
  /\ NoCodec
  /\ infer = IdleInfer
  /\ form = IdleForm
  /\ json = IdleJson
  /\ mp \in {[pc |-> "start", data |-> d, boundary |-> <<>>] : d \in Payloads}

\* A call detectBoundary(data).
DetectCall ==
  /\ mp.pc = "start"
  /\ mp' = [mp EXCEPT !.pc = "done", !.boundary = detectBoundary(mp.data)]
  /\ UNCHANGED <<bufferPool, bufs, call, infer, form, json, codec, msg, cfg>>

NextBoundary == DetectCall

SpecBoundary == InitBoundary /\ [][NextBoundary]_vars

\* The first line of a payload: everything before its first line terminator,
\* the terminator being CRLF when the LF that ends the line follows a CR, and
\* the bare LF otherwise.  The payload has a line terminator.
C10_FirstLine(data) ==
  LET lf == Index(data, LF)
  IN IF lf > 1 /\ data[lf - 1] = "\r" THEN SubSeq(data, 1, lf - 2)
     ELSE SubSeq(data, 1, lf - 1)

C10_Claimed(data) ==
  IF ~Contains(data, "\n") THEN <<>>
  ELSE IF HasPrefix(C10_FirstLine(data), DashDash)
  THEN From(C10_FirstLine(data), 3)
  ELSE <<>>

\* C10: detectBoundary returns the payload's first line with its leading "--"
\* stripped, and the empty result when that line does not begin with "--" or
\* when the payload has no line terminator.
C10_BoundaryIsFirstLine ==
  mp.pc = "done" => mp.boundary = C10_Claimed(mp.data)

(***************************************************************************)
(* Form codec: valuesToJSON (marshalers.go:163-203), and the multipart     *)
(* codec's populateFromMultipart (marshalers.go:564-622)                   *)
(***************************************************************************)

\* Bound: the most values one key carries.
MaxVals == 2

\* strings.Split(s, "."): the segments between the dots.
RECURSIVE Split(_)
Split(s) ==
  LET dot == Index(s, <<".">>)
  IN IF dot = 0 THEN <<s>>
     ELSE <<SubSeq(s, 1, dot - 1)>> \o Split(From(s, dot + 1))

\* m[k] = v on a Go map
MapPut(m, k, v) == [x \in DOMAIN m \cup {k} |-> IF x = k THEN v ELSE m[x]]

EmptyMap == [k \in {} |-> NilV]

\* The value valuesToJSON / populateFromMultipart stores for a key with one
\* or more values.
keyValue_AlwaysArray(vals) ==
  ArrayV([j \in 1..Len(vals) |-> inferType(vals[j])])

keyValue(vals) ==
  IF Len(vals) = 1 THEN inferType(vals[1])
  ELSE ArrayV([j \in 1..Len(vals) |-> inferType(vals[j])])

\* The inner loop of valuesToJSON over parts[i..] with current = m: the last
\* part is assigned; an intermediate part gets a new map if it is missing,
\* and current moves into it only if it holds a map.
RECURSIVE setParts(_, _, _, _)
setParts(m, parts, i, val) ==
  IF i = Len(parts) THEN MapPut(m, parts[i], val)
  ELSE LET part == parts[i]
           m1 == IF part \in DOMAIN m THEN m ELSE MapPut(m, part, ObjectV(EmptyMap))
       IN IF m1[part].t = "object"
          THEN MapPut(m1, part, ObjectV(setParts(m1[part].v, parts, i + 1, val)))
          ELSE setParts(m1, parts, i + 1, val)

\* The inner loop with an intermediate part that always gets a new map.
RECURSIVE setParts_FreshMap(_, _, _, _)
setParts_FreshMap(m, parts, i, val) ==
  IF i = Len(parts) THEN MapPut(m, parts[i], val)
  ELSE MapPut(m, parts[i],
              ObjectV(setParts_FreshMap(EmptyMap, parts, i + 1, val)))

\* One iteration of valuesToJSON's loop over the keys.
formKey_FreshMap(tree, key, vals) ==
  IF Len(vals) = 0 THEN tree
  ELSE setParts_FreshMap(tree, Split(key), 1, keyValue(vals))

\* for key, vals := range values: the loop body
formKey(tree, key, vals) ==
  IF Len(vals) = 0 THEN tree
  ELSE setParts(tree, Split(key), 1, keyValue(vals))

\* One iteration of populateFromMultipart's loop over form.Value.
multipartField(tree, key, vals) ==
  IF Len(vals) = 0 THEN tree ELSE MapPut(tree, key, keyValue(vals))

DataSuffix == <<"_", "d", "a", "t", "a">>
NameSuffix == <<"_", "n", "a", "m", "e">>
TypeSuffix == <<"_", "t", "y", "p", "e">>

\* One iteration of populateFromMultipart's loop over form.File, the file
\* being opened and read without error: the first file's bytes, filename and
\* (if not empty) content type.
multipartFile_LastFile(tree, key, parts) ==
  IF Len(parts) = 0 THEN tree
  ELSE LET fh == parts[Len(parts)]
           t1 == MapPut(tree, key \o DataSuffix, BytesV(fh.data))
           t2 == MapPut(t1, key \o NameSuffix, StringV(fh.name))
       IN IF fh.ctype # <<>> THEN MapPut(t2, key \o TypeSuffix, StringV(fh.ctype))
          ELSE t2

multipartFile(tree, key, parts) ==
  IF Len(parts) = 0 THEN tree
  ELSE LET fh == parts[1]
           t1 == MapPut(tree, key \o DataSuffix, BytesV(fh.data))
           t2 == MapPut(t1, key \o NameSuffix, StringV(fh.name))
       IN IF fh.ctype # <<>> THEN MapPut(t2, key \o TypeSuffix, StringV(fh.ctype))
          ELSE t2

KeyA == <<"a">>
KeyB == <<"b">>
KeyAB == <<"a", ".", "b">>
KeyAC == <<"a", ".", "c">>

FormKeys == {KeyA, KeyB, KeyAB, KeyAC}

FormTokens == {<<"1">>, <<"x">>}

ValueLists == SeqsUpTo(FormTokens, MaxVals)

FieldKeys == {<<"n">>, <<"f">> \o NameSuffix}

FileKeys == {<<"f">>}

FileParts ==
  { [data |-> <<"\"", "x">>, name |-> <<"p">>, ctype |-> <<"t">>],
    [data |-> <<>>, name |-> <<"q">>, ctype |-> <<>>] }

FileLists == SeqsUpTo(FileParts, MaxVals)

NoFiles == [k \in {} |-> <<>>]

FormStart(kind, values, files) ==
  [pc |-> "loop", kind |-> kind, values |-> values, files |-> files,
   pending |-> DOMAIN values, pendingFiles |-> DOMAIN files,
   tree |-> EmptyMap, res |-> None]

InitForm ==
  /\ InitPool
  /\ NoCodec
  /\ infer = IdleInfer
  /\ json = IdleJson
  /\ mp = IdleMp
  /\ form \in {FormStart("form", values, NoFiles) : values \in [FormKeys -> ValueLists]}
          \cup {FormStart("multipart", values, files) :
                  values \in [FieldKeys -> ValueLists], files \in [FileKeys -> FileLists]}

\* valuesToJSON: the loop body for one key, the keys being visited in an
\* unspecified order.
FormKeyStep(k) ==
  /\ form.kind = "form" /\ form.pc = "loop"
  /\ k \in form.pending
  /\ form' = [form EXCEPT !.pending = @ \ {k},
                          !.tree = formKey(@, k, form.values[k])]
  /\ UNCHANGED <<bufferPool, bufs, call, infer, json, mp, codec, msg, cfg>>

\* valuesToJSON: return marshalJSON(result)
FormMarshal ==
  /\ form.kind = "form" /\ form.pc = "loop"
  /\ form.pending = {}
  /\ \E r \in marshalJSON(ObjectV(form.tree)) :
       /\ form' = [form EXCEPT !.pc = "done", !.res = r[1]]
       /\ bufferPool' = r[2]
       /\ bufs' = r[3]
  /\ UNCHANGED <<call, infer, json, mp, codec, msg, cfg>>

\* populateFromMultipart: the loop body for one regular field.
MultipartFieldStep(k) ==
  /\ form.kind = "multipart" /\ form.pc = "loop"
  /\ k \in form.pending
  /\ form' = [form EXCEPT !.pending = @ \ {k},
                          !.tree = multipartField(@, k, form.values[k])]
  /\ UNCHANGED <<bufferPool, bufs, call, infer, json, mp, codec, msg, cfg>>

\* populateFromMultipart: the loop body for one file field, after the loop
\* over the regular fields.
MultipartFileStep(k) ==
  /\ form.kind = "multipart" /\ form.pc = "loop"
  /\ form.pending = {}
  /\ k \in form.pendingFiles
  /\ form' = [form EXCEPT !.pendingFiles = @ \ {k},
                          !.tree = multipartFile(@, k, form.files[k])]
  /\ UNCHANGED <<bufferPool, bufs, call, infer, json, mp, codec, msg, cfg>>

\* populateFromMultipart: fh.Open() or io.ReadAll fails for a file field
\* that has a file; the error is returned.
MultipartFileFail(k) ==
  /\ form.kind = "multipart" /\ form.pc = "loop"
  /\ form.pending = {}
  /\ k \in form.pendingFiles
  /\ Len(form.files[k]) > 0
  /\ form' = [form EXCEPT !.pc = "done",
                          !.res = [data |-> <<>>, isNil |-> TRUE, err |-> "file"]]
  /\ UNCHANGED <<bufferPool, bufs, call, infer, json, mp, codec, msg, cfg>>

\* populateFromMultipart: jsonData, err := marshalJSONWithBytes(result)
MultipartMarshal ==
  /\ form.kind = "multipart" /\ form.pc = "loop"
  /\ form.pending = {} /\ form.pendingFiles = {}
  /\ \E r \in marshalJSONWithBytes(form.tree) :
       /\ form' = [form EXCEPT !.pc = "done", !.res = r[1]]
       /\ bufferPool' = r[2]
       /\ bufs' = r[3]
  /\ UNCHANGED <<call, infer, json, mp, codec, msg, cfg>>

NextForm ==
  \/ \E k \in FormKeys : FormKeyStep(k)
  \/ FormMarshal
  \/ \E k \in FieldKeys : MultipartFieldStep(k)
  \/ \E k \in FileKeys : MultipartFileStep(k)
  \/ \E k \in FileKeys : MultipartFileFail(k)
  \/ MultipartMarshal

SpecForm == InitForm /\ [][NextForm]_vars

Missing == [t |-> "missing"]

\* The entry reached from map m along parts[i..], Missing if there is none.
RECURSIVE Lookup(_, _, _)
Lookup(m, parts, i) ==
  IF parts[i] \notin DOMAIN m THEN Missing
  ELSE IF i = Len(parts) THEN m[parts[i]]
  ELSE IF m[parts[i]].t = "object" THEN Lookup(m[parts[i]].v, parts, i + 1)
  ELSE Missing

\* The entries of a tree that are not objects, at any depth.
RECURSIVE Leaves(_)
Leaves(m) ==
  UNION {IF m[k].t = "object" THEN Leaves(m[k].v) ELSE {m[k]} : k \in DOMAIN m}

Supplied(k) == Len(form.values[k]) > 0

IsProperPrefix(p, q) == Len(p) < Len(q) /\ SubSeq(q, 1, Len(p)) = p

\* Two keys conflict when the path of one is a proper prefix of the other's.
Conflict(k1, k2) ==
  \/ IsProperPrefix(Split(k1), Split(k2))
  \/ IsProperPrefix(Split(k2), Split(k1))

ConflictFree ==
  \A k1, k2 \in DOMAIN form.values :
    (Supplied(k1) /\ Supplied(k2)) => ~Conflict(k1, k2)

\* What a key with one or more values maps to: the inferred scalar for one
\* value, the array of the inferred values, in order, for several.
C6_Expected(vals) ==
  IF Len(vals) = 1 THEN inferType(vals[1])
  ELSE [t |-> "array", v |-> [j \in 1..Len(vals) |-> inferType(vals[j])]]

\* C5 as claimed: when valuesToJSON has built its tree, every supplied key
\* that conflicts with no other supplied key has its value at the end of its
\* dotted path, inside nested objects.
C5_NestedUnderPath ==
  (form.pc = "done" /\ form.kind = "form") =>
    \A k \in FormKeys :
      (Supplied(k) /\ \A k2 \in FormKeys \ {k} : Supplied(k2) => ~Conflict(k, k2))
        => Lookup(form.tree, Split(k), 1) = C6_Expected(form.values[k])

\* Field keys whose entry a processed file field has overwritten.
Shadowed(k) ==
  \E f \in DOMAIN form.files \ form.pendingFiles :
    /\ Len(form.files[f]) > 0
    /\ k \in {f \o DataSuffix, f \o NameSuffix, f \o TypeSuffix}

C6_Form ==
  (form.pc = "done" /\ form.kind = "form") =>
    /\ \A leaf \in Leaves(form.tree) :
         \E k \in FormKeys : Supplied(k) /\ leaf = C6_Expected(form.values[k])
    /\ (\A k \in FormKeys : ~Supplied(k)) => form.tree = EmptyMap
    /\ ConflictFree =>
         \A k \in FormKeys :
           LET vals == form.values[k]
               e == Lookup(form.tree, Split(k), 1)
           IN /\ Len(vals) = 1 => e.t # "array" /\ e = inferType(vals[1])
              /\ Len(vals) > 1 =>
                   /\ e.t = "array"
                   /\ Len(e.v) = Len(vals)
                   /\ \A j \in 1..Len(vals) : e.v[j] = inferType(vals[j])
              /\ Len(vals) = 0 => e.t \in {"missing", "object"}

C6_Multipart ==
  (form.pc # "off" /\ form.kind = "multipart" /\ form.pending = {}) =>
    \A k \in FieldKeys :
      ~Shadowed(k) =>
        LET vals == form.values[k]
        IN /\ Len(vals) = 0 => k \notin DOMAIN form.tree
           /\ Len(vals) > 0 => k \in DOMAIN form.tree
           /\ Len(vals) = 1 =>
                form.tree[k].t # "array" /\ form.tree[k] = inferType(vals[1])
           /\ Len(vals) > 1 =>
                /\ form.tree[k].t = "array"
                /\ Len(form.tree[k].v) = Len(vals)
                /\ \A j \in 1..Len(vals) : form.tree[k].v[j] = inferType(vals[j])

C7_Step ==
  (/\ form.kind = "form" /\ form.pc = "loop" /\ form'.pc = "loop"
   /\ Supplied(KeyA) /\ Supplied(KeyAB)) =>
     /\ (KeyAB \in form.pending /\ KeyAB \notin form'.pending /\ KeyA \notin form.pending) =>
          /\ form'.tree[KeyA].t = "object"
          /\ Lookup(form'.tree, Split(KeyAB), 1) = C6_Expected(form.values[KeyAB])
          /\ \A k \in DOMAIN form'.tree \ {KeyA} :
               k \in DOMAIN form.tree /\ form'.tree[k] = form.tree[k]
     /\ (KeyA \in form.pending /\ KeyA \notin form'.pending /\ KeyAB \notin form.pending) =>
          form'.tree[KeyA] = C6_Expected(form.values[KeyA])

\* C7 as claimed: when a payload supplies both a and a.b, whichever key the
\* loop processes later overwrites what the earlier one left under "a", and
\* the value of a.b is never written anywhere outside "a".
C7_LaterOverwritesEarlier == [][C7_Step]_vars

(***************************************************************************)
(* Decoding the generated JSON into a message: runtime.JSONPb.Unmarshal    *)
(* with DiscardUnknown, as populateFromValues (marshalers.go:155-160) and  *)
(* populateFromMultipart (marshalers.go:616-621) call it                   *)
(***************************************************************************)

JFail == [ok |-> FALSE, v |-> None, next |-> 0]

JOk(v, next) == [ok |-> TRUE, v |-> v, next |-> next]

JAt(s, i) == IF i <= Len(s) THEN s[i] ELSE ""

\* The character a JSON escape stands for ("" for none): JSON has the
\* escapes \" \\ \/ \b \f \n \r \t and \u.
JUnescape(e) ==
  CASE e = "\"" -> "\""
    [] e = "\\" -> "\\"
    [] e = "/" -> "/"
    [] e = "b" -> Bs
    [] e = "f" -> "\f"
    [] e = "n" -> "\n"
    [] e = "r" -> "\r"
    [] e = "t" -> "\t"
    [] OTHER -> ""

\* The character of a \u escape's four hex digits ("" for none), for the
\* code points of the named characters.
JUnicode(hex) ==
  CASE hex = <<"0", "0", "0", "1">> -> Soh
    [] hex = <<"0", "0", "0", "7">> -> Bel
    [] hex = <<"0", "0", "0", "8">> -> Bs
    [] hex = <<"0", "0", "0", "b">> -> Vt
    [] hex = <<"0", "0", "7", "f">> -> Del
    [] hex = <<"0", "0", "8", "0">> -> Pad
    [] hex = <<"0", "0", "e", "9">> -> Eacute
    [] OTHER -> ""

\* The characters a JSON string may not hold unescaped: the control
\* characters below the space, and bytes that are not UTF-8.
JRawForbidden == {"\n", "\r", "\t", "\f", Bel, Bs, Vt, Soh, BadByte}

\* A JSON string from the character after its opening quote: up to the
\* closing quote, escapes decoded; a raw control character is an error.
RECURSIVE JScanString(_, _, _)
JScanString(s, j, acc) ==
  IF j > Len(s) THEN JFail
  ELSE IF s[j] = "\"" THEN JOk([t |-> "jstring", v |-> acc], j + 1)
  ELSE IF s[j] \in JRawForbidden THEN JFail
  ELSE IF s[j] = "\\" /\ JAt(s, j + 1) = "u"
  THEN IF j + 5 > Len(s) \/ JUnicode(SubSeq(s, j + 2, j + 5)) = "" THEN JFail
       ELSE JScanString(s, j + 6, Append(acc, JUnicode(SubSeq(s, j + 2, j + 5))))
  ELSE IF s[j] = "\\"
  THEN IF j + 1 > Len(s) \/ JUnescape(s[j + 1]) = "" THEN JFail
       ELSE JScanString(s, j + 2, Append(acc, JUnescape(s[j + 1])))
  ELSE JScanString(s, j + 1, Append(acc, s[j]))

\* The index after the run of digits that starts at i.
RECURSIVE JSpanDigits(_, _)
JSpanDigits(s, i) ==
  IF i <= Len(s) /\ s[i] \in Digits THEN JSpanDigits(s, i + 1) ELSE i

\* A JSON number: -? (0 | [1-9][0-9]*) (. [0-9]+)? ([eE] [+-]? [0-9]+)?
JScanNumber(s, i) ==
  LET a == IF JAt(s, i) = "-" THEN i + 1 ELSE i
      b == IF JAt(s, a) = "0" THEN a + 1 ELSE JSpanDigits(s, a)
      hasFrac == JAt(s, b) = "."
      c == IF hasFrac THEN JSpanDigits(s, b + 1) ELSE b
      hasExp == JAt(s, c) \in {"e", "E"}
      d == IF hasExp /\ JAt(s, c + 1) \in {"+", "-"} THEN c + 2 ELSE c + 1
      e == IF hasExp THEN JSpanDigits(s, d) ELSE c
  IN IF b = a \/ (hasFrac /\ c = b + 1) \/ (hasExp /\ e = d) THEN JFail
     ELSE JOk([t |-> "jnumber", v |-> SubSeq(s, i, e - 1)], e)

JLiteral(s, i, word, v) ==
  IF i + Len(word) - 1 <= Len(s) /\ SubSeq(s, i, i + Len(word) - 1) = word
  THEN JOk(v, i + Len(word)) ELSE JFail

\* Op of x, x worked out once.
With(x, Op(_)) == CHOOSE out \in {Op(r) : r \in {x}} : TRUE

RECURSIVE JParseValue(_, _)
RECURSIVE JParseElems(_, _, _)
RECURSIVE JParseMembers(_, _, _)

\* The elements of an array from the value that starts at i.
JParseElems(s, i, acc) ==
  With(JParseValue(s, i), LAMBDA r :
    IF ~r.ok THEN JFail
    ELSE IF JAt(s, r.next) = "," THEN JParseElems(s, r.next + 1, Append(acc, r.v))
    ELSE IF JAt(s, r.next) = "]"
    THEN JOk([t |-> "jarray", v |-> Append(acc, r.v)], r.next + 1)
    ELSE JFail)

\* The members of an object from the key that starts at i, in text order.
JParseMembers(s, i, acc) ==
  With(IF JAt(s, i) = "\"" THEN JScanString(s, i + 1, <<>>) ELSE JFail, LAMBDA k :
    With(IF k.ok /\ JAt(s, k.next) = ":" THEN JParseValue(s, k.next + 1) ELSE JFail,
         LAMBDA r :
      With(IF k.ok THEN Append(acc, [k |-> k.v.v, v |-> r.v]) ELSE acc, LAMBDA mem :
        IF ~r.ok THEN JFail
        ELSE IF JAt(s, r.next) = "," THEN JParseMembers(s, r.next + 1, mem)
        ELSE IF JAt(s, r.next) = "}" THEN JOk([t |-> "jobject", v |-> mem], r.next + 1)
        ELSE JFail)))

\* The JSON value that starts at i (the writer emits no white space).
JParseValue(s, i) ==
  LET c == JAt(s, i)
  IN CASE c = "\"" -> JScanString(s, i + 1, <<>>)
       [] c = "{" -> IF JAt(s, i + 1) = "}" THEN JOk([t |-> "jobject", v |-> <<>>], i + 2)
                     ELSE JParseMembers(s, i + 1, <<>>)
       [] c = "[" -> IF JAt(s, i + 1) = "]" THEN JOk([t |-> "jarray", v |-> <<>>], i + 2)
                     ELSE JParseElems(s, i + 1, <<>>)
       [] c = "t" -> JLiteral(s, i, TrueStr, [t |-> "jbool", v |-> TRUE])
       [] c = "f" -> JLiteral(s, i, FalseStr, [t |-> "jbool", v |-> FALSE])
       [] c = "n" -> JLiteral(s, i, NullStr, [t |-> "jnull"])
       [] c = "-" \/ c \in Digits -> JScanNumber(s, i)
       [] OTHER -> JFail

\* A whole text as one JSON value.
JSONDecode(s) ==
  With(JParseValue(s, 1), LAMBDA r :
    IF r.ok /\ r.next = Len(s) + 1 THEN r ELSE JFail)

\* The printable ASCII characters, from the space (byte 32) to "~" (byte 126);
\* the grave accent (byte 96) is written out as a word.
Printable ==
  <<" ", "!", "\"", "#", "$", "%", "&", "'", "(", ")", "*", "+", ",", "-", ".", "/",
    "0", "1", "2", "3", "4", "5", "6", "7", "8", "9", ":", ";", "<", "=", ">", "?",
    "@", "A", "B", "C", "D", "E", "F", "G", "H", "I", "J", "K", "L", "M", "N", "O",
    "P", "Q", "R", "S", "T", "U", "V", "W", "X", "Y", "Z", "[", "\\", "]", "^", "_",
    "grave", "a", "b", "c", "d", "e", "f", "g", "h", "i", "j", "k", "l", "m", "n", "o",
    "p", "q", "r", "s", "t", "u", "v", "w", "x", "y", "z", "{", "|", "}", "~">>

\* The byte value of a printable ASCII character.
Ascii(c) == 31 + (CHOOSE i \in 1..Len(Printable) : Printable[i] = c)

\* A string as the sequence of its byte values.
Bytes(s) == [i \in 1..Len(s) |-> Ascii(s[i])]

\* The standard base64 alphabet; the URL alphabet has "-" and "_" for its
\* last two characters.
B64Std ==
  <<"A", "B", "C", "D", "E", "F", "G", "H", "I", "J", "K", "L", "M", "N", "O", "P",
    "Q", "R", "S", "T", "U", "V", "W", "X", "Y", "Z", "a", "b", "c", "d", "e", "f",
    "g", "h", "i", "j", "k", "l", "m", "n", "o", "p", "q", "r", "s", "t", "u", "v",
    "w", "x", "y", "z", "0", "1", "2", "3", "4", "5", "6", "7", "8", "9", "+", "/">>

\* The 6-bit value of a base64 character, -1 for a character outside the
\* alphabet.
B64Index(c, url) ==
  IF url /\ c = "-" THEN 62
  ELSE IF url /\ c = "_" THEN 63
  ELSE IF url /\ c \in {"+", "/"} THEN 0 - 1
  ELSE IF \E i \in 1..Len(B64Std) : B64Std[i] = c
  THEN (CHOOSE i \in 1..Len(B64Std) : B64Std[i] = c) - 1
  ELSE 0 - 1

B64Fail == [ok |-> FALSE, v |-> <<>>]

\* The bytes of one group of 2, 3 or 4 base64 characters (1, 2 or 3 bytes).
B64Group(cs, url) ==
  LET n == Len(cs)
      x == [i \in 1..4 |-> IF i <= n THEN B64Index(cs[i], url) ELSE 0]
      w == x[1] * 262144 + x[2] * 4096 + x[3] * 64 + x[4]
      all == <<w \div 65536, (w \div 256) % 256, w % 256>>
  IN IF \E i \in 1..n : B64Index(cs[i], url) < 0 THEN B64Fail
     ELSE [ok |-> TRUE, v |-> SubSeq(all, 1, n - 1)]

\* base64 Encoding.DecodeString after the line breaks were dropped: groups
\* of four characters; the last group may end in "=" padding (padded
\* encoding) or be two or three characters long (unpadded encoding).
RECURSIVE B64Groups(_, _, _)
B64Groups(s, url, padded) ==
  LET n == Len(s)
      last == IF padded /\ n = 4 /\ s[4] = "="
              THEN IF s[3] = "=" THEN B64Group(SubSeq(s, 1, 2), url)
                   ELSE B64Group(SubSeq(s, 1, 3), url)
              ELSE IF n = 1 \/ (padded /\ n < 4) THEN B64Fail
              ELSE B64Group(s, url)
      head == B64Group(SubSeq(s, 1, 4), url)
      rest == B64Groups(From(s, 5), url, padded)
  IN IF n = 0 THEN [ok |-> TRUE, v |-> <<>>]
     ELSE IF n <= 4 THEN last
     ELSE IF head.ok /\ rest.ok THEN [ok |-> TRUE, v |-> head.v \o rest.v]
     ELSE B64Fail

\* protojson's decoding of a bytes field from a JSON string: the URL
\* alphabet if the string holds "-" or "_", no padding if its length is not
\* a multiple of four; "\r" and "\n" are ignored by the decoder.
unmarshalBytes(s) ==
  LET url == Contains(s, "-") \/ Contains(s, "_")
      padded == Len(s) % 4 = 0
  IN B64Groups(SelectSeq(s, LAMBDA c : c \notin {"\r", "\n"}), url, padded)

\* A message field's descriptor: its kind ("string", "bytes", "int64" or
\* "message"), whether it is repeated, and for a message field the name of
\* its message type.
Field(kind, rep, sub) == [kind |-> kind, rep |-> rep, sub |-> sub]

\* The message types the codecs decode into.  UploadRequest is the upload
\* message of MultipartMarshaler's documentation, for a text field n and a
\* file field f.  FormRequest has a scalar b and a nested message a with the
\* fields b and c.
Descriptor(type) ==
  CASE type = "UploadRequest" ->
         (<<"n">> :> Field("string", FALSE, "")
          @@ (<<"f">> \o DataSuffix) :> Field("bytes", FALSE, "")
          @@ (<<"f">> \o NameSuffix) :> Field("string", FALSE, "")
          @@ (<<"f">> \o TypeSuffix) :> Field("string", FALSE, ""))
    [] type = "FormRequest" ->
         (<<"a">> :> Field("message", FALSE, "FormInner")
          @@ <<"b">> :> Field("int64", FALSE, ""))
    [] type = "FormInner" ->
         (<<"b">> :> Field("int64", FALSE, "")
          @@ <<"c">> :> Field("string", TRUE, ""))

\* The zero value of a field: a string is its characters, bytes are byte
\* values, an unset message field is nil.
ZeroOf(fd) ==
  IF fd.rep THEN <<>>
  ELSE CASE fd.kind = "int64" -> [neg |-> FALSE, mag |-> <<"0">>]
         [] fd.kind = "message" -> [set |-> FALSE]
         [] OTHER -> <<>>

\* proto.Reset: every field at its zero value.
ZeroFields(type) == [n \in DOMAIN Descriptor(type) |-> ZeroOf(Descriptor(type)[n])]

Message(type, fields) == [t |-> "message", type |-> type, f |-> fields]

PFail == [ok |-> FALSE, v |-> <<>>]

\* protojson's integer from the text of a JSON number (or of a JSON string
\* holding one): a whole number within int64, an exponent being allowed
\* when the value is whole.
unmarshalInt(text) ==
  LET n == JScanNumber(text, 1)
      plain == ~Contains(text, ".") /\ ~Contains(text, "e") /\ ~Contains(text, "E")
      f == ParseFloat(text)
      whole == f.ok /\ (f.val.v.mant = <<>> \/ f.val.v.exp >= 0)
      ds == IF whole /\ f.val.v.mant # <<>>
            THEN (IF f.val.v.neg THEN <<"-">> ELSE <<>>)
                 \o f.val.v.mant \o Zeros(f.val.v.exp)
            ELSE <<"0">>
      i == ParseInt(IF plain THEN text ELSE ds)
  IN IF ~n.ok \/ n.next # Len(text) + 1 THEN PFail
     ELSE IF ~plain /\ ~whole THEN PFail
     ELSE IF ~i.ok THEN PFail
     ELSE [ok |-> TRUE, v |-> i.val.v]

\* protojson's unmarshalScalar for the kinds of the model.
unmarshalScalar(kind, jv) ==
  CASE kind = "string" ->
         IF jv.t = "jstring" THEN [ok |-> TRUE, v |-> jv.v] ELSE PFail
    [] kind = "bytes" ->
         IF jv.t = "jstring" THEN unmarshalBytes(jv.v) ELSE PFail
    [] kind = "int64" ->
         IF jv.t \in {"jnumber", "jstring"} THEN unmarshalInt(jv.v) ELSE PFail

RECURSIVE unmarshalMessage(_, _, _, _, _)
RECURSIVE unmarshalList(_, _, _, _)
RECURSIVE unmarshalSingular(_, _)

\* A singular field from a JSON value.  A message field is decoded into a
\* new message, which is attached before its fields are read: it is there,
\* partly filled, when one of them fails.
unmarshalSingular(fd, jv) ==
  IF fd.kind = "message"
  THEN IF jv.t # "jobject" THEN PFail
       ELSE With(unmarshalMessage(jv.v, 1, fd.sub, ZeroFields(fd.sub), {}), LAMBDA r :
              [ok |-> r.ok, v |-> [set |-> TRUE, f |-> r.f]])
  ELSE unmarshalScalar(fd.kind, jv)

\* A repeated field from the elements of a JSON array, appended one by one.
unmarshalList(fd, items, i, acc) ==
  IF i > Len(items) THEN [ok |-> TRUE, v |-> acc]
  ELSE With(unmarshalSingular(fd, items[i]), LAMBDA r :
         IF items[i].t = "jnull" \/ ~r.ok
         THEN [ok |-> FALSE,
               v |-> IF fd.kind = "message" /\ items[i].t = "jobject"
                     THEN Append(acc, r.v) ELSE acc]
         ELSE With(Append(acc, r.v), LAMBDA acc1 : unmarshalList(fd, items, i + 1, acc1)))

\* protojson's unmarshalMessage with DiscardUnknown: the members of the JSON
\* object in text order, from member i on, into the fields f.  An unknown
\* name is skipped, a repeated name is an error, null leaves the field
\* alone; at the first error the fields set so far stay set.
unmarshalMessage(members, i, type, f, seen) ==
  IF i > Len(members) THEN [ok |-> TRUE, f |-> f]
  ELSE LET name == members[i].k
           jv == members[i].v
           fd == Descriptor(type)[name]
           kept == fd.rep \/ (fd.kind = "message" /\ jv.t = "jobject")
       IN IF name \notin DOMAIN Descriptor(type)
          THEN unmarshalMessage(members, i + 1, type, f, seen)
          ELSE IF name \in seen THEN [ok |-> FALSE, f |-> f]
          ELSE IF jv.t = "jnull"
          THEN unmarshalMessage(members, i + 1, type, f, seen \cup {name})
          ELSE With(IF fd.rep
                    THEN IF jv.t = "jarray" THEN unmarshalList(fd, jv.v, 1, f[name])
                         ELSE [ok |-> FALSE, v |-> f[name]]
                    ELSE unmarshalSingular(fd, jv), LAMBDA r :
                 With(IF r.ok \/ kept THEN [f EXCEPT ![name] = r.v] ELSE f, LAMBDA f1 :
                   IF ~r.ok THEN [ok |-> FALSE, f |-> f1]
                   ELSE unmarshalMessage(members, i + 1, type, f1, seen \cup {name})))

\* runtime.JSONPb.Unmarshal(jsonData, v): a v that is no proto.Message (in
\* the model: nil) is refused as "not a pointer"; jsonData is checked to be
\* one JSON value before the message is touched;
\* protojson.Unmarshal then resets the message and reads a JSON object
\* into it.  Yields the error and the message as it is left.
JSONPbUnmarshal(jsonData, v) ==
  IF v.t # "message" THEN [err |-> "not a pointer", v |-> v]
  ELSE With(JSONDecode(jsonData), LAMBDA j :
         IF ~j.ok THEN [err |-> "json", v |-> v]
         ELSE IF j.v.t # "jobject"
         THEN [err |-> "proto", v |-> Message(v.type, ZeroFields(v.type))]
         ELSE With(unmarshalMessage(j.v.v, 1, v.type, ZeroFields(v.type), {}), LAMBDA r :
                [err |-> IF r.ok THEN "nil" ELSE "proto", v |-> Message(v.type, r.f)]))

(***************************************************************************)
(* Multipart codec: MultipartMarshaler.Unmarshal and multipartDecoder       *)
(* (marshalers.go:503-544), populateFromMultipart (marshalers.go:564-622)  *)
(***************************************************************************)

\* The start of a request body, up to its first line break and a little
\* beyond; what follows is known through the form ReadForm makes of it.
BodyHeads ==
  { <<>>,
    <<"X", "\n">>,
    <<"-", "-", "\n">>,
    <<"-", "-", "X">>,
    <<"-", "-", "X", "\r", "\n">>,
    <<"-", "-", "X", "\n", "-">> }

\* Contents of an uploaded file.
FileContents ==
  { <<>>, <<"Q">>, <<"Q", "Q">>, <<"Q", "Q", "=", "=">>, <<"Q", "U", "J", "D">>,
    <<"\"", "x">>, <<"h", "e", "l", "l", "o">> }

LaterFile == [data |-> <<"z">>, name |-> <<"q">>, ctype |-> <<>>]

\* The files uploaded under one field: none, one, or one followed by another.
UploadLists ==
  {<<>>}
  \cup {<<[data |-> c, name |-> <<"p">>, ctype |-> t]>> :
          c \in FileContents, t \in {<<>>, <<"t">>}}
  \cup {<<[data |-> c, name |-> <<"p">>, ctype |-> <<"t">>], LaterFile>> :
          c \in FileContents}

\* The forms multipart.Reader.ReadForm can return: the values of the text
\* field n and the files of the file field f.
MultipartForms ==
  {[values |-> (<<"n">> :> vals), files |-> (<<"f">> :> files)] :
     vals \in {<<>>, <<<<"x">>>>, <<<<"1">>>>}, files \in UploadLists}

\* The targets handed to the multipart codec: nil, a new UploadRequest, an
\* UploadRequest that already holds data.
UploadTargets ==
  { NilV,
    Message("UploadRequest", ZeroFields("UploadRequest")),
    Message("UploadRequest",
            [ZeroFields("UploadRequest") EXCEPT ![<<"n">>] = <<"o">>,
                                                ![<<"f">> \o DataSuffix] = <<1>>]) }

\* The tree populateFromMultipart builds: the regular fields, then the file
\* fields (every key is a top-level key, so the order within each loop does
\* not matter).
RECURSIVE multipartTree(_, _, _, _)
multipartTree(tree, frm, fields, files) ==
  IF fields # {}
  THEN LET k == CHOOSE x \in fields : TRUE
       IN multipartTree(multipartField(tree, k, frm.values[k]), frm, fields \ {k}, files)
  ELSE IF files # {}
  THEN LET k == CHOOSE x \in files : TRUE
       IN multipartTree(multipartFile(tree, k, frm.files[k]), frm, fields, files \ {k})
  ELSE tree

\* populateFromMultipart(form, v): the possible outcomes [err, v, pool, bufs].
\* Opening or reading a file may fail; marshalJSONWithBytes writes the tree
\* in some key order; the JSON is decoded into v.
populateFromMultipart(frm, v) ==
  {[err |-> "file", v |-> v, pool |-> bufferPool, bufs |-> bufs] :
     k \in {x \in DOMAIN frm.files : Len(frm.files[x]) > 0}}
  \cup
  {IF r[1].err # "nil"
   THEN [err |-> r[1].err, v |-> v, pool |-> r[2], bufs |-> r[3]]
   ELSE With(JSONPbUnmarshal(r[1].data, v), LAMBDA u :
          [err |-> u.err, v |-> u.v, pool |-> r[2], bufs |-> r[3]]) :
     r \in marshalJSONWithBytes(
             multipartTree(EmptyMap, frm, DOMAIN frm.values, DOMAIN frm.files))}

\* What a Decode call leaves: the error, the target, whether ReadForm was
\* called and with which result, the pool.
DecodeOutcome(err, v, parsed, frm, pool, bs) ==
  [err |-> err, v |-> v, parsed |-> parsed, form |-> frm, pool |-> pool, bufs |-> bs]

\* multipartDecoder.Decode(v) on a reader that yields data (or fails), and
\* whose body ReadForm turns into a form (or rejects).
multipartDecode_NoBoundaryCheck(data, v) ==
  {DecodeOutcome("read", v, FALSE, None, bufferPool, bufs)}
  \cup {DecodeOutcome("parse", v, TRUE, None, bufferPool, bufs)}
  \cup UNION {{DecodeOutcome(o.err, o.v, TRUE, frm, o.pool, o.bufs) :
                 o \in populateFromMultipart(frm, v)} : frm \in MultipartForms}

multipartDecode(data, v) ==
  {DecodeOutcome("read", v, FALSE, None, bufferPool, bufs)}
  \cup
  IF detectBoundary(data) = <<>>
  THEN {DecodeOutcome("boundary", v, FALSE, None, bufferPool, bufs)}
  ELSE {DecodeOutcome("parse", v, TRUE, None, bufferPool, bufs)}
       \cup UNION {{DecodeOutcome(o.err, o.v, TRUE, frm, o.pool, o.bufs) :
                      o \in populateFromMultipart(frm, v)} : frm \in MultipartForms}

InitMultipart ==
  /\ InitPool
  /\ infer = IdleInfer /\ form = IdleForm /\ json = IdleJson /\ mp = IdleMp
  /\ cfg = IdleCfg
  /\ msg \in UploadTargets
  /\ codec \in {[pc |-> "start", fn |-> fn, data |-> d, parsed |-> FALSE,
                 form |-> None, err |-> "none"] :
                  fn \in {"Decode", "Unmarshal"}, d \in BodyHeads}

\* multipartDecoder.Decode(v)
MultipartDecode ==
  /\ codec.pc = "start" /\ codec.fn = "Decode"
  /\ \E o \in multipartDecode(codec.data, msg) :
       /\ codec' = [codec EXCEPT !.pc = "done", !.err = o.err,
                                 !.parsed = o.parsed, !.form = o.form]
       /\ msg' = o.v
       /\ bufferPool' = o.pool
       /\ bufs' = o.bufs
  /\ UNCHANGED <<call, infer, form, json, mp, cfg>>

\* MultipartMarshaler.Unmarshal(data, v): always the error.
MultipartUnmarshal_Decodes ==
  /\ codec.pc = "start" /\ codec.fn = "Unmarshal"
  /\ \E o \in multipartDecode(codec.data, msg) :
       /\ codec' = [codec EXCEPT !.pc = "done", !.err = o.err,
                                 !.parsed = o.parsed, !.form = o.form]
       /\ msg' = o.v
       /\ bufferPool' = o.pool
       /\ bufs' = o.bufs
  /\ UNCHANGED <<call, infer, form, json, mp, cfg>>

MultipartUnmarshal ==
  /\ codec.pc = "start" /\ codec.fn = "Unmarshal"
  /\ codec' = [codec EXCEPT !.pc = "done", !.err = "use NewDecoder"]
  /\ UNCHANGED <<bufferPool, bufs, call, infer, form, json, mp, msg, cfg>>

NextMultipart ==
  \/ MultipartDecode
  \/ MultipartUnmarshal

SpecMultipart == InitMultipart /\ [][NextMultipart]_vars

FileF == <<"f">>

\* C11 as claimed: after a successful multipart decode of a file uploaded
\* under field f into a message with the bytes field f_data, that field
\* holds exactly the bytes of the uploaded file.
C11_FileBytesPreserved ==
  (/\ codec.pc = "done" /\ codec.fn = "Decode" /\ codec.err = "nil"
   /\ Len(codec.form.files[FileF]) > 0) =>
     msg.f[FileF \o DataSuffix] = Bytes(codec.form.files[FileF][1].data)

\* One file-loop iteration of populateFromMultipart for field k: with no
\* file the tree is unchanged; otherwise k_data and k_name are those of the
\* first file, k_type is set to its content type if that is not empty and
\* is left as it was if it is empty, and no other key changes.
C12_FileStep(k) ==
  LET files == form.files[k]
      old == form.tree
      new == form'.tree
      kd == k \o DataSuffix
      kn == k \o NameSuffix
      kt == k \o TypeSuffix
      same(x) == (x \in DOMAIN new <=> x \in DOMAIN old)
                 /\ (x \in DOMAIN old => new[x] = old[x])
  IN IF Len(files) = 0 THEN new = old
     ELSE /\ {kd, kn} \subseteq DOMAIN new
          /\ new[kd] = BytesV(files[1].data)
          /\ new[kn] = StringV(files[1].name)
          /\ IF files[1].ctype # <<>>
             THEN kt \in DOMAIN new /\ new[kt] = StringV(files[1].ctype)
             ELSE same(kt)
          /\ \A x \in (DOMAIN new \cup DOMAIN old) \ {kd, kn, kt} : same(x)

\* C12: every file-loop iteration of populateFromMultipart takes k_data and
\* k_name from the first file of the field only, adds k_type if and only if
\* that file declares a content type, and adds nothing for a field without
\* files.
C12_FirstFileOnly ==
  [][\A k \in FileKeys :
       (/\ form.kind = "multipart" /\ form.pc = "loop" /\ form'.pc = "loop"
        /\ k \in form.pendingFiles /\ k \notin form'.pendingFiles) =>
          C12_FileStep(k)]_vars

\* Two different files were uploaded under f, the first without a content
\* type: the tree has the first file's bytes and name and no f_type.
C12_Witness ==
  /\ form.kind = "multipart" /\ form.pc = "loop" /\ form.pendingFiles = {}
  /\ Len(form.files[FileF]) = MaxVals
  /\ form.files[FileF][1].ctype = <<>>
  /\ form.files[FileF][MaxVals].ctype # <<>>
  /\ form.tree[FileF \o DataSuffix] = BytesV(form.files[FileF][1].data)
  /\ (FileF \o TypeSuffix) \notin DOMAIN form.tree

\* C13: MultipartMarshaler.Unmarshal returns its "use NewDecoder" error for
\* every payload and every target, and leaves the target as it was.
C13_UnmarshalAlwaysRejected ==
  [][(codec.pc = "start" /\ codec.fn = "Unmarshal" /\ codec'.pc = "done") =>
       (codec'.err = "use NewDecoder" /\ msg' = msg /\ ~codec'.parsed)]_vars

\* Unmarshal was called with a body that starts with a boundary line and a
\* nil target.
C13_Witness ==
  /\ codec.pc = "done" /\ codec.fn = "Unmarshal"
  /\ detectBoundary(codec.data) # <<>>
  /\ msg = NilV

\* C14: when the body was read and detectBoundary finds no boundary in it,
\* Decode returns the boundary error, does not call ReadForm and leaves the
\* target as it was.
C14_UndetectableBoundaryRejected ==
  [][(/\ codec.pc = "start" /\ codec.fn = "Decode" /\ codec'.pc = "done"
      /\ codec'.err # "read" /\ detectBoundary(codec.data) = <<>>) =>
       (codec'.err = "boundary" /\ ~codec'.parsed /\ msg' = msg)]_vars

\* Decode has rejected a body whose first line is "--" alone, the target
\* holding earlier data.
C14_Witness ==
  /\ codec.pc = "done" /\ codec.fn = "Decode" /\ codec.err = "boundary"
  /\ HasPrefix(codec.data, DashDash)
  /\ msg.t = "message" /\ msg.f[<<"n">>] # <<>>

(***************************************************************************)
(* Form codec: FormMarshaler.Unmarshal and populateFromValues              *)
(* (marshalers.go:118-161)                                                 *)
(***************************************************************************)

\* Bound: the longest form payload among the enumerated ones.
MaxQueryLen == 4

HexDigits == <<"0", "1", "2", "3", "4", "5", "6", "7", "8", "9",
               "a", "b", "c", "d", "e", "f">>

HexUpper == <<"0", "1", "2", "3", "4", "5", "6", "7", "8", "9",
              "A", "B", "C", "D", "E", "F">>

IsHex(c) == \E i \in 1..16 : HexDigits[i] = c \/ HexUpper[i] = c

HexVal(c) == (CHOOSE i \in 1..16 : HexDigits[i] = c \/ HexUpper[i] = c) - 1

\* The character of a byte: itself if printable, else a name for it.
ByteChar(n) ==
  IF n >= 32 /\ n <= 126 THEN Printable[n - 31] ELSE "#" \o ToString(n)

\* url.QueryUnescape: "%XX" is the byte XX, "+" is a space; a "%" that is
\* not followed by two hex digits is an error.
RECURSIVE QueryUnescape(_)
QueryUnescape(s) ==
  IF s = <<>> THEN [ok |-> TRUE, v |-> <<>>]
  ELSE IF s[1] = "%"
  THEN IF Len(s) < 3 \/ ~IsHex(s[2]) \/ ~IsHex(s[3]) THEN [ok |-> FALSE, v |-> <<>>]
       ELSE LET r == QueryUnescape(From(s, 4))
            IN [ok |-> r.ok,
                v |-> <<ByteChar(16 * HexVal(s[2]) + HexVal(s[3]))>> \o r.v]
  ELSE LET r == QueryUnescape(Tail(s))
       IN [ok |-> r.ok, v |-> <<IF s[1] = "+" THEN " " ELSE s[1]>> \o r.v]

\* url.ParseQuery's loop over the "&"-separated pairs of query: a pair with
\* a ";" or a bad escape is skipped and recorded as the error (the first
\* escape error is kept, a semicolon error replaces what was recorded); an
\* empty pair is skipped; every other pair is appended to its key's values.
RECURSIVE parseQuery(_, _, _)
parseQuery(query, m, err) ==
  LET amp == Index(query, <<"&">>)
      pair == IF amp = 0 THEN query ELSE SubSeq(query, 1, amp - 1)
      rest == IF amp = 0 THEN <<>> ELSE From(query, amp + 1)
      eq == Index(pair, <<"=">>)
      k == QueryUnescape(IF eq = 0 THEN pair ELSE SubSeq(pair, 1, eq - 1))
      v == QueryUnescape(IF eq = 0 THEN <<>> ELSE From(pair, eq + 1))
      old == IF k.v \in DOMAIN m THEN m[k.v] ELSE <<>>
  IN IF query = <<>> THEN [values |-> m, err |-> err]
     ELSE IF Contains(pair, ";") THEN parseQuery(rest, m, "semicolon")
     ELSE IF pair = <<>> THEN parseQuery(rest, m, err)
     ELSE IF ~k.ok \/ ~v.ok
     THEN parseQuery(rest, m, IF err = "nil" THEN "escape" ELSE err)
     ELSE parseQuery(rest, MapPut(m, k.v, Append(old, v.v)), err)

NoValues == [k \in {} |-> <<>>]

\* url.ParseQuery(string(data))
ParseQuery(data) == parseQuery(data, NoValues, "nil")

\* The trees valuesToJSON's loop can build, the keys being visited in any
\* order.
RECURSIVE valuesTrees(_, _, _)
valuesTrees(tree, values, pending) ==
  IF pending = {} THEN {tree}
  ELSE UNION {valuesTrees(formKey(tree, k, values[k]), values, pending \ {k}) :
                k \in pending}

\* valuesToJSON(values): the possible <<result, new bufferPool, new bufs>>.
valuesToJSON(values) ==
  UNION {marshalJSON(ObjectV(tree)) : tree \in valuesTrees(EmptyMap, values, DOMAIN values)}

\* populateFromValues(values, v): the possible outcomes [err, v, pool, bufs].
populateFromValues(values, v) ==
  {IF r[1].err # "nil"
   THEN [err |-> r[1].err, v |-> v, pool |-> r[2], bufs |-> r[3]]
   ELSE With(JSONPbUnmarshal(r[1].data, v), LAMBDA u :
          [err |-> u.err, v |-> u.v, pool |-> r[2], bufs |-> r[3]]) :
     r \in valuesToJSON(values)}

\* FormMarshaler.Unmarshal(data, v)
formUnmarshal_IgnoreParseError(data, v) ==
  populateFromValues(ParseQuery(data).values, v)

formUnmarshal(data, v) ==
  IF ParseQuery(data).err # "nil"
  THEN {[err |-> "parse", v |-> v, pool |-> bufferPool, bufs |-> bufs]}
  ELSE populateFromValues(ParseQuery(data).values, v)

QueryAlphabet == {"b", "=", "&", "%", "4"}

\* Payloads beyond the bound: a nested key, a repeated key, a valid pair
\* before a bad escape, a semicolon.
LongQueries ==
  { <<"a", ".", "b", "=", "4", "&", "b", "=", "4">>,
    <<"a", ".", "c", "=", "b", "&", "a", ".", "c", "=", "4">>,
    <<"b", "=", "4", "&", "%">>,
    <<"b", "=", "4", "&", "b", "=", "%", "4">>,
    <<"b", "=", "4", ";", "b">>,
    <<"b", "=", "+", "%", "3", "4">> }

Queries == StringsUpTo(QueryAlphabet, MaxQueryLen) \cup LongQueries

\* The targets handed to the form codec: nil, a new FormRequest, a
\* FormRequest that already holds data.
FormTargets ==
  { NilV,
    Message("FormRequest", ZeroFields("FormRequest")),
    Message("FormRequest",
            [ZeroFields("FormRequest") EXCEPT ![<<"b">>] = [neg |-> FALSE, mag |-> <<"7">>]]) }

InitFormDecode ==
  /\ InitPool
  /\ infer = IdleInfer /\ form = IdleForm /\ json = IdleJson /\ mp = IdleMp
  /\ cfg = IdleCfg
  /\ msg \in FormTargets
  /\ codec \in {[pc |-> "start", fn |-> "Unmarshal", data |-> d, err |-> "none"] :
                  d \in Queries}

\* FormMarshaler.Unmarshal(data, v)
FormUnmarshal ==
  /\ codec.pc = "start"
  /\ \E o \in formUnmarshal(codec.data, msg) :
       /\ codec' = [codec EXCEPT !.pc = "done", !.err = o.err]
       /\ msg' = o.v
       /\ bufferPool' = o.pool
       /\ bufs' = o.bufs
  /\ UNCHANGED <<call, infer, form, json, mp, cfg>>

NextFormDecode == FormUnmarshal

SpecFormDecode == InitFormDecode /\ [][NextFormDecode]_vars

\* C15: when url.ParseQuery rejects the payload, FormMarshaler.Unmarshal
\* returns the parse error and leaves the target as it was, whatever valid
\* pairs the payload also holds.
C15_MalformedFormRejected ==
  [][(codec.pc = "start" /\ codec'.pc = "done" /\ ParseQuery(codec.data).err # "nil") =>
       (codec'.err = "parse" /\ msg' = msg)]_vars

\* A payload with the valid pair b=4 before a bad escape was rejected, the
\* target holding earlier data.
C15_Witness ==
  /\ codec.pc = "done" /\ codec.err = "parse"
  /\ ParseQuery(codec.data).err = "escape"
  /\ <<"b">> \in DOMAIN ParseQuery(codec.data).values
  /\ msg.t = "message" /\ msg.f[<<"b">>].mag = <<"7">>

(***************************************************************************)
(* Messages as reflection sees them: the Go struct behind a proto.Message, *)
(* its exported fields by their Go names (marshalers.go:400-401, 855-868)  *)
(***************************************************************************)

\* A struct field: its Go kind ("string", "bytes" for []byte, "ints" for
\* []int32) and its protobuf field number.  A value of any of them is a
\* sequence of numbers: the bytes of a string or []byte, the elements of a
\* []int32.
GoField(kind, num) == [kind |-> kind, num |-> num]

NameData == <<"D", "a", "t", "a">>
NameText == <<"T", "e", "x", "t">>
NameMessage == <<"M", "e", "s", "s", "a", "g", "e">>
NameUserText == <<"U", "s", "e", "r", "T", "e", "x", "t">>
NameName == <<"N", "a", "m", "e">>
NameCounts == <<"C", "o", "u", "n", "t", "s">>
NameContentType == <<"C", "o", "n", "t", "e", "n", "t", "T", "y", "p", "e">>

\* The exported fields of the message types of the model.
GoFields(type) ==
  CASE type = "HttpBody" -> (NameContentType :> GoField("string", 1)
                             @@ NameData :> GoField("bytes", 2))
    [] type = "Item" -> (NameName :> GoField("string", 1)
                         @@ NameCounts :> GoField("ints", 2))
    [] type = "Note" -> (NameData :> GoField("string", 1)
                         @@ NameMessage :> GoField("string", 2))
    [] type = "Samples" -> (NameData :> GoField("ints", 1)
                            @@ NameName :> GoField("string", 2))
    [] type = "Echo" -> (NameText :> GoField("string", 1)
                         @@ NameMessage :> GoField("string", 2))
    [] type = "Reply" -> (NameMessage :> GoField("string", 1)
                          @@ NameUserText :> GoField("string", 2))
    [] type = "Flag" -> (NameText :> GoField("bytes", 1)
                         @@ NameMessage :> GoField("string", 2))
    [] type = "Blob" -> (NameMessage :> GoField("bytes", 1)
                         @@ NameName :> GoField("string", 2))

\* A non-nil message: a pointer to a struct with its field values and the
\* bytes of the unknown fields it carries.
Struct(type, fields, unknown) ==
  [t |-> "struct", type |-> type, val |-> fields, unknown |-> unknown]

ZeroStruct(type) ==
  Struct(type, [n \in DOMAIN GoFields(type) |-> <<>>], <<>>)

\* A nil pointer of a message type: it is a proto.Message, and
\* reflect.ValueOf(msg).Elem() is the zero Value.
NilStruct(type) == [t |-> "nilstruct", type |-> type]

IsMessage(v) == v.t \in {"struct", "nilstruct"}

\* rv.FieldByName(name) on a non-nil message: valid iff the struct has an
\* exported field of that name.
FieldIsValid(v, name) == name \in DOMAIN GoFields(v.type)

FieldKind(v, name) == GoFields(v.type)[name].kind

(***************************************************************************)
(* proto.Marshal / proto.Unmarshal: the protobuf wire format of these      *)
(* messages.  Every byte of the model is below 128, so that a varint, a    *)
(* tag and a length are one byte each.                                     *)
(***************************************************************************)

\* The fields of a type in field-number order.
RECURSIVE FieldsInOrder(_, _)
FieldsInOrder(type, left) ==
  IF left = {} THEN <<>>
  ELSE LET n == CHOOSE x \in left :
                  \A y \in left : GoFields(type)[x].num <= GoFields(type)[y].num
       IN <<n>> \o FieldsInOrder(type, left \ {n})

\* One field on the wire: a string or []byte as a length-delimited value, a
\* []int32 packed into one; a field at its zero value is left out.
EncodeField(fd, val) ==
  IF val = <<>> THEN <<>> ELSE <<8 * fd.num + 2, Len(val)>> \o val

RECURSIVE EncodeFields(_, _)
EncodeFields(v, names) ==
  IF names = <<>> THEN <<>>
  ELSE EncodeField(GoFields(v.type)[Head(names)], v.val[Head(names)])
       \o EncodeFields(v, Tail(names))

\* proto.Marshal(msg): the known fields in field-number order, then the
\* unknown fields; a nil message encodes to nothing.
protoMarshal(v) ==
  IF v.t = "nilstruct" THEN <<>>
  ELSE EncodeFields(v, FieldsInOrder(v.type, DOMAIN GoFields(v.type))) \o v.unknown

\* The wire types a field of this kind is read from: an element of a
\* []int32 also arrives alone, as a varint.
WireTypesOf(kind) == IF kind = "ints" THEN {0, 2} ELSE {2}

\* The decoding loop of proto.Unmarshal from byte i on.  A tag with field
\* number 0 or with wire type 4, 6 or 7, and a value that runs past the end
\* of the input, are errors (groups, wire type 3, are not followed: they are
\* reported as errors too); a known field with a wire type of its own is set
\* (a []int32 appended to); everything else is kept as an unknown field.
RECURSIVE wireDecode(_, _, _)
wireDecode(data, i, v) ==
  IF i > Len(data) THEN [ok |-> TRUE, v |-> v]
  ELSE LET num == data[i] \div 8
           wt == data[i] % 8
           short == i + 1 > Len(data)
           n == IF short THEN 0 ELSE data[i + 1]
           next == CASE wt = 0 -> i + 2
                     [] wt = 1 -> i + 9
                     [] wt = 2 -> i + 2 + n
                     [] wt = 5 -> i + 5
                     [] OTHER -> 0
           payload == SubSeq(data, i + 2, next - 1)
           known == {x \in DOMAIN GoFields(v.type) :
                       GoFields(v.type)[x].num = num
                       /\ wt \in WireTypesOf(GoFields(v.type)[x].kind)}
           name == CHOOSE x \in known : TRUE
           kind == GoFields(v.type)[name].kind
           val == CASE kind = "ints" /\ wt = 0 -> Append(v.val[name], n)
                    [] kind = "ints" /\ wt = 2 -> v.val[name] \o payload
                    [] OTHER -> payload
       IN IF num = 0 \/ wt \in {3, 4, 6, 7} THEN [ok |-> FALSE, v |-> v]
          ELSE IF (wt \in {0, 2} /\ short) \/ next - 1 > Len(data)
          THEN [ok |-> FALSE, v |-> v]
          ELSE IF known = {}
          THEN wireDecode(data, next,
                          [v EXCEPT !.unknown = @ \o SubSeq(data, i, next - 1)])
          ELSE wireDecode(data, next, [v EXCEPT !.val[name] = val])

\* proto.Unmarshal(data, msg): the message is reset, then decoded into; at an
\* error what was decoded so far stays.
protoUnmarshal(data, v) == wireDecode(data, 1, ZeroStruct(v.type))

(***************************************************************************)
(* Binary codec: BinaryMarshaler.Marshal / Unmarshal (marshalers.go:395-431) *)
(***************************************************************************)

\* Bound: the longest input of Unmarshal among the enumerated ones.
MaxWireLen == 3

\* What a Marshal call returns: the bytes (nil on error) and the error.  A
\* call that panics returns nothing.
Returned(out) == [out |-> out, isNil |-> FALSE, err |-> "nil"]
Failed(err) == [out |-> <<>>, isNil |-> TRUE, err |-> err]
Panicked == [out |-> <<>>, isNil |-> TRUE, err |-> "panic"]

\* The Data field is there and is a []byte.
HasBytesData(v) == FieldIsValid(v, NameData) /\ FieldKind(v, NameData) = "bytes"

\* BinaryMarshaler.Marshal(v).  FieldByName on the zero Value of a nil
\* message pointer panics.
binaryMarshal_EncodingFirst(v) ==
  IF IsMessage(v)
  THEN IF v.t = "nilstruct" THEN Panicked
       ELSE Returned(protoMarshal(v))
  ELSE IF v.t = "bytes" THEN Returned(v.v)
  ELSE Failed("unsupported type")

binaryMarshal(v) ==
  IF IsMessage(v)
  THEN IF v.t = "nilstruct" THEN Panicked
       ELSE IF HasBytesData(v) THEN Returned(v.val[NameData])
       ELSE Returned(protoMarshal(v))
  ELSE IF v.t = "bytes" THEN Returned(v.v)
  ELSE Failed("unsupported type")

\* BinaryMarshaler.Unmarshal(data, v): the error and v as it is left.  The
\* exported fields of a message reached through its pointer can be set.
binaryUnmarshal_DecodesToo(data, v) ==
  IF IsMessage(v)
  THEN IF v.t = "nilstruct" THEN [err |-> "panic", v |-> v]
       ELSE LET r == protoUnmarshal(data, v)
            IN IF HasBytesData(v)
               THEN [err |-> "nil", v |-> [r.v EXCEPT !.val[NameData] = data]]
               ELSE [err |-> IF r.ok THEN "nil" ELSE "proto", v |-> r.v]
  ELSE [err |-> "unsupported type", v |-> v]

binaryUnmarshal(data, v) ==
  IF IsMessage(v)
  THEN IF v.t = "nilstruct" THEN [err |-> "panic", v |-> v]
       ELSE IF HasBytesData(v) THEN [err |-> "nil", v |-> [v EXCEPT !.val[NameData] = data]]
       ELSE LET r == protoUnmarshal(data, v)
            IN [err |-> IF r.ok THEN "nil" ELSE "proto", v |-> r.v]
  ELSE [err |-> "unsupported type", v |-> v]

\* The values handed to the binary codec as v: messages with and without a
\* []byte field Data, raw bytes, a string, nil, a value of another type, and
\* a nil message pointer.
BinaryValues ==
  {Struct("HttpBody", (NameContentType :> c @@ NameData :> d), u) :
     c \in {<<>>, <<65>>}, d \in {<<>>, <<65>>, <<10, 1, 65>>}, u \in {<<>>, <<24, 1>>}}
  \cup {Struct("Item", (NameName :> n @@ NameCounts :> k), <<>>) :
          n \in {<<>>, <<65>>}, k \in {<<>>, <<1>>, <<1, 0>>}}
  \cup {Struct("Note", (NameData :> d @@ NameMessage :> <<>>), <<>>) :
          d \in {<<>>, <<65>>}}
  \cup {Struct("Samples", (NameData :> d @@ NameName :> <<>>), <<>>) :
          d \in {<<>>, <<65, 1>>}}
  \cup {BytesV(<<>>), BytesV(<<65, 1>>), StringV(<<65>>), NilV, OtherV,
        NilStruct("HttpBody")}

WireAlphabet == {10, 18, 16, 1, 65}

\* Inputs beyond the bound: an Item with both fields, a field 2 before a
\* field 1, a []int32 given packed and then alone.
LongWires ==
  { <<10, 1, 65, 16, 1>>, <<18, 1, 65, 10, 1, 65>>, <<18, 2, 1, 0, 16, 65>> }

WireInputs == StringsUpTo(WireAlphabet, MaxWireLen) \cup LongWires

InitBinary ==
  /\ InitPool
  /\ infer = IdleInfer /\ form = IdleForm /\ json = IdleJson /\ mp = IdleMp
  /\ cfg = IdleCfg
  /\ msg \in BinaryValues
  /\ codec \in {[pc |-> "start", fn |-> "Marshal", data |-> <<>>, res |-> None]}
               \cup {[pc |-> "start", fn |-> "Unmarshal", data |-> d, res |-> None] :
                       d \in WireInputs}

\* BinaryMarshaler.Marshal(v)
BinaryMarshal ==
  /\ codec.pc = "start" /\ codec.fn = "Marshal"
  /\ codec' = [codec EXCEPT !.pc = "done", !.res = binaryMarshal(msg)]
  /\ UNCHANGED <<bufferPool, bufs, call, infer, form, json, mp, msg, cfg>>

\* BinaryMarshaler.Unmarshal(data, v)
BinaryUnmarshal ==
  /\ codec.pc = "start" /\ codec.fn = "Unmarshal"
  /\ codec' = [codec EXCEPT !.pc = "done",
                            !.res = Failed(binaryUnmarshal(codec.data, msg).err)]
  /\ msg' = binaryUnmarshal(codec.data, msg).v
  /\ UNCHANGED <<bufferPool, bufs, call, infer, form, json, mp, cfg>>

NextBinary ==
  \/ BinaryMarshal
  \/ BinaryUnmarshal

SpecBinary == InitBinary /\ [][NextBinary]_vars

MaxTextLen == 2

LowerLetters ==
  <<"a", "b", "c", "d", "e", "f", "g", "h", "i", "j", "k", "l", "m",
    "n", "o", "p", "q", "r", "s", "t", "u", "v", "w", "x", "y", "z">>

UpperLetters ==
  <<"A", "B", "C", "D", "E", "F", "G", "H", "I", "J", "K", "L", "M",
    "N", "O", "P", "Q", "R", "S", "T", "U", "V", "W", "X", "Y", "Z">>

\* unicode.ToUpper on the characters of the model
ToUpper(c) ==
  IF \E i \in 1..26 : LowerLetters[i] = c
  THEN UpperLetters[CHOOSE i \in 1..26 : LowerLetters[i] = c]
  ELSE c

\* titleCase(s): the first character in upper case, the rest as it is.
titleCase(s) == IF s = <<>> THEN s ELSE <<ToUpper(Head(s))>> \o Tail(s)

DefaultTextField == <<"t", "e", "x", "t">>

\* The struct field the codec looks for: InputField or OutputField, "text"
\* when it is empty, in title case.
textFieldName(field) == titleCase(IF field = <<>> THEN DefaultTextField ELSE field)

\* field.IsValid() && field.Kind() == reflect.String
IsStringField(v, name) == FieldIsValid(v, name) /\ FieldKind(v, name) = "string"

\* TextMarshaler.Marshal(v) with OutputField = field
textMarshal_MessageFirst(field, v) ==
  IF IsMessage(v) /\ v.t = "nilstruct" THEN Panicked
  ELSE IF IsMessage(v) /\ IsStringField(v, NameMessage)
  THEN Returned(v.val[NameMessage])
  ELSE IF IsMessage(v) /\ IsStringField(v, textFieldName(field))
  THEN Returned(v.val[textFieldName(field)])
  ELSE IF v.t = "string" THEN Returned(v.v)
  ELSE Failed("no string field found")

textMarshal(field, v) ==
  IF IsMessage(v) /\ v.t = "nilstruct" THEN Panicked
  ELSE IF IsMessage(v) /\ IsStringField(v, textFieldName(field))
  THEN Returned(v.val[textFieldName(field)])
  ELSE IF IsMessage(v) /\ IsStringField(v, NameMessage)
  THEN Returned(v.val[NameMessage])
  ELSE IF v.t = "string" THEN Returned(v.v)
  ELSE Failed("no string field found")

\* TextMarshaler.Unmarshal(data, v) with InputField = field: the error and v
\* as it is left.
textUnmarshal_BothFields(field, data, v) ==
  IF IsMessage(v) /\ v.t = "nilstruct" THEN [err |-> "panic", v |-> v]
  ELSE IF IsMessage(v) /\ IsStringField(v, textFieldName(field))
  THEN [err |-> "nil",
        v |-> IF IsStringField(v, NameMessage)
              THEN [v EXCEPT !.val[textFieldName(field)] = data, !.val[NameMessage] = data]
              ELSE [v EXCEPT !.val[textFieldName(field)] = data]]
  ELSE IF IsMessage(v) /\ IsStringField(v, NameMessage)
  THEN [err |-> "nil", v |-> [v EXCEPT !.val[NameMessage] = data]]
  ELSE [err |-> "no string field found to set", v |-> v]

textUnmarshal(field, data, v) ==
  IF IsMessage(v) /\ v.t = "nilstruct" THEN [err |-> "panic", v |-> v]
  ELSE IF IsMessage(v) /\ IsStringField(v, textFieldName(field))
  THEN [err |-> "nil", v |-> [v EXCEPT !.val[textFieldName(field)] = data]]
  ELSE IF IsMessage(v) /\ IsStringField(v, NameMessage)
  THEN [err |-> "nil", v |-> [v EXCEPT !.val[NameMessage] = data]]
  ELSE [err |-> "no string field found to set", v |-> v]

\* The configured field names: none, the default, names in the case of the
\* struct field, of the JSON name and of the proto name, a name no message
\* has.
TextFields ==
  { <<>>, DefaultTextField, NameText, <<"m", "e", "s", "s", "a", "g", "e">>,
    <<"u", "s", "e", "r", "T", "e", "x", "t">>,
    <<"u", "s", "e", "r", "_", "t", "e", "x", "t">>,
    <<"n", "o", "n", "e">> }

\* The values handed to the text codec as v.
TextValues ==
  {Struct("Echo", (NameText :> a @@ NameMessage :> b), <<>>) :
     a \in {<<>>, <<72>>}, b \in {<<>>, <<77>>}}
  \cup {Struct("Reply", (NameMessage :> a @@ NameUserText :> b), <<>>) :
          a \in {<<>>, <<77>>}, b \in {<<>>, <<85>>}}
  \cup {Struct("Flag", (NameText :> a @@ NameMessage :> b), <<>>) :
          a \in {<<>>, <<72>>}, b \in {<<77>>}}
  \cup {Struct("Blob", (NameMessage :> <<77>> @@ NameName :> <<78>>), <<>>),
        Struct("Item", (NameName :> <<78>> @@ NameCounts :> <<1>>), <<>>),
        StringV(<<>>), StringV(<<72, 105>>), BytesV(<<72>>), NilV, OtherV,
        NilStruct("Echo")}

TextBodies == StringsUpTo({65, 66}, MaxTextLen)

InitText ==
  /\ InitPool
  /\ infer = IdleInfer /\ form = IdleForm /\ json = IdleJson /\ mp = IdleMp
  /\ cfg = IdleCfg
  /\ msg \in TextValues
  /\ codec \in {[pc |-> "start", fn |-> "Marshal", field |-> f, data |-> <<>>,
                 res |-> None] : f \in TextFields}
               \cup {[pc |-> "start", fn |-> "Unmarshal", field |-> f, data |-> d,
                      res |-> None] : f \in TextFields, d \in TextBodies}

\* TextMarshaler.Marshal(v)
TextMarshal ==
  /\ codec.pc = "start" /\ codec.fn = "Marshal"
  /\ codec' = [codec EXCEPT !.pc = "done", !.res = textMarshal(codec.field, msg)]
  /\ UNCHANGED <<bufferPool, bufs, call, infer, form, json, mp, msg, cfg>>

\* TextMarshaler.Unmarshal(data, v)
TextUnmarshal ==
  /\ codec.pc = "start" /\ codec.fn = "Unmarshal"
  /\ codec' = [codec EXCEPT
                 !.pc = "done",
                 !.res = Failed(textUnmarshal(codec.field, codec.data, msg).err)]
  /\ msg' = textUnmarshal(codec.field, codec.data, msg).v
  /\ UNCHANGED <<bufferPool, bufs, call, infer, form, json, mp, cfg>>

NextText ==
  \/ TextMarshal
  \/ TextUnmarshal

SpecText == InitText /\ [][NextText]_vars

MaxRegs == 3

\* MIME strings given to the options: a type, the same type in another case
\* and with a parameter, another type, a wildcard.
MimeTypes ==
  { "application/xml", "Application/XML", "application/xml; charset=utf-8",
    "text/plain", "*/*" }

\* The marshaler values registered (pointers to distinct marshalers).
Marshalers == {"xmlA", "xmlB", "text"}

\* c.marshalers[mimeType] = marshaler
marshalersPut_KeepFirst(c, mimeType, marshaler) ==
  IF mimeType \in DOMAIN c THEN c ELSE MapPut(c, mimeType, marshaler)

marshalersPut(c, mimeType, marshaler) == MapPut(c, mimeType, marshaler)

\* for mimeType, marshaler := range marshalers { c.marshalers[mimeType] =
\* marshaler }, in an order the range picks.
RECURSIVE marshalersPutAll(_, _, _)
marshalersPutAll(c, marshalers, left) ==
  IF left = {} THEN c
  ELSE LET k == CHOOSE x \in left : TRUE
       IN marshalersPutAll(marshalersPut(c, k, marshalers[k]), marshalers, left \ {k})

\* The maps handed to WithMarshalers: the empty one, and maps with the keys
\* of one kind or of several.
MarshalerMaps ==
  { [k \in {} |-> "text"],
    [k \in {"application/xml", "text/plain"} |-> IF k = "text/plain" THEN "text" ELSE "xmlA"],
    [k \in {"application/xml", "Application/XML"} |-> "xmlB"],
    [k \in {"*/*"} |-> "text"] }

\* A config as newServerConfig builds it (an empty map) or a zero
\* serverConfig (a nil map); no option applied yet.
InitRegistry ==
  /\ InitPool
  /\ infer = IdleInfer /\ form = IdleForm /\ json = IdleJson /\ mp = IdleMp
  /\ msg = IdleMsg
  /\ cfg = IdleCfg
  /\ codec \in {[pc |-> "config", nilMap |-> b, log |-> <<>>] : b \in BOOLEAN}

\* WithMarshaler(mimeType, marshaler)(c)
WithMarshaler ==
  /\ codec.pc = "config" /\ Len(codec.log) < MaxRegs
  /\ \E mimeType \in MimeTypes, marshaler \in Marshalers :
       /\ cfg' = marshalersPut(cfg, mimeType, marshaler)
       /\ codec' = [codec EXCEPT !.nilMap = FALSE,
                                 !.log = Append(@, (mimeType :> marshaler))]
  /\ UNCHANGED <<bufferPool, bufs, call, infer, form, json, mp, msg>>

\* WithMarshalers(marshalers)(c)
WithMarshalers ==
  /\ codec.pc = "config" /\ Len(codec.log) < MaxRegs
  /\ \E marshalers \in MarshalerMaps :
       /\ cfg' = marshalersPutAll(cfg, marshalers, DOMAIN marshalers)
       /\ codec' = [codec EXCEPT !.nilMap = FALSE, !.log = Append(@, marshalers)]
  /\ UNCHANGED <<bufferPool, bufs, call, infer, form, json, mp, msg>>

NextRegistry ==
  \/ WithMarshaler
  \/ WithMarshalers

SpecRegistry == InitRegistry /\ [][NextRegistry]_vars

\* The registrations applied so far that named m, by their position, and
\* the last of them.
NamedAt(m) == {i \in 1..Len(codec.log) : m \in DOMAIN codec.log[i]}

LastNamed(m) == CHOOSE i \in NamedAt(m) : \A j \in NamedAt(m) : j <= i

\* C20: after any sequence of WithMarshaler / WithMarshalers applications the
\* config has an entry for a MIME string exactly when some registration
\* named that very string, and the entry is the marshaler of the last
\* registration that named it; the map exists after the first application.
C20_RegistryLastWriteWins ==
  codec.pc = "config" =>
    /\ DOMAIN cfg \subseteq MimeTypes
    /\ \A m \in MimeTypes :
         IF NamedAt(m) = {} THEN m \notin DOMAIN cfg
         ELSE /\ m \in DOMAIN cfg
              /\ cfg[m] = codec.log[LastNamed(m)][m]
    /\ codec.log # <<>> => ~codec.nilMap

\* A type was registered, registered again with another marshaler, then
\* another type was registered; its case variant was never registered.
C20_Witness ==
  /\ codec.pc = "config" /\ Len(codec.log) = 3
  /\ codec.log[1] = ("application/xml" :> "xmlA")
  /\ codec.log[2] = ("application/xml" :> "xmlB")
  /\ DOMAIN codec.log[3] = {"text/plain"}
  /\ cfg["application/xml"] = "xmlB"
  /\ "Application/XML" \notin DOMAIN cfg

\* C21: the Marshal and Unmarshal operations of the binary and text codecs end with a
\* result or an error value for every value and target, a nil message
\* pointer included, and never with a panic.
C21_CodecsNeverPanic ==
  (codec.pc = "done" /\ codec.fn \in {"Marshal", "Unmarshal"}) =>
    codec.res.err # "panic"

(***************************************************************************)
(* One marshaler instance shared by concurrent calls: the reads of its     *)
(* fields in TextMarshaler.Marshal / Unmarshal (marshalers.go:853-904),    *)
(* MultipartMarshaler.NewDecoder (509-515) and the ContentType methods     *)
(***************************************************************************)

\* 32 << 20, the default of MultipartMarshaler.MaxMemory
DefaultMaxMemory == 33554432

\* The instances: a TextMarshaler's fields and a MultipartMarshaler's, set
\* at construction to a value or left zero.
Instances ==
  [InputField : {<<>>, <<"m", "e", "s", "s", "a", "g", "e">>},
   OutputField : {<<>>, <<"u", "s", "e", "r", "T", "e", "x", "t">>},
   MaxMemory : {0, 1024}]

\* The calls made on the instance, with their arguments.
SharedCalls ==
  {[op |-> "Marshal", v |-> v, data |-> <<>>] :
     v \in {Struct("Reply", (NameMessage :> <<77>> @@ NameUserText :> <<85>>), <<>>),
            Struct("Echo", (NameText :> <<72>> @@ NameMessage :> <<77>>), <<>>),
            StringV(<<72, 105>>)}}
  \cup {[op |-> "Unmarshal", v |-> v, data |-> <<65>>] :
          v \in {Struct("Echo", (NameText :> <<72>> @@ NameMessage :> <<77>>), <<>>),
                 Struct("Item", (NameName :> <<78>> @@ NameCounts :> <<1>>), <<>>)}}
  \cup {[op |-> "NewDecoder", v |-> NilV, data |-> <<>>],
        [op |-> "ContentType", v |-> NilV, data |-> <<>>]}

\* The field of the instance a call reads.
fieldRead(inst, op) ==
  CASE op = "Marshal" -> inst.OutputField
    [] op = "Unmarshal" -> inst.InputField
    [] op = "NewDecoder" -> inst.MaxMemory

\* The default a call puts in its local value when the field is zero.
fieldDefault(op, local) ==
  CASE op = "NewDecoder" -> IF local = 0 THEN DefaultMaxMemory ELSE local
    [] OTHER -> IF local = <<>> THEN DefaultTextField ELSE local

\* What a call returns (for Unmarshal: the error and the target as left).
callResult(op, local, v, data) ==
  CASE op = "Marshal" -> textMarshal(local, v)
    [] op = "Unmarshal" -> textUnmarshal(local, data, v)
    [] op = "NewDecoder" -> [maxMemory |-> local]
    [] op = "ContentType" -> [mime |-> "text/plain"]

InitShared ==
  /\ InitPool
  /\ infer = IdleInfer /\ form = IdleForm /\ json = IdleJson /\ mp = IdleMp
  /\ msg = IdleMsg
  /\ cfg \in Instances
  /\ \E calls \in [Callers -> SharedCalls] :
       codec = [pc |-> "shared", made |-> cfg,
                calls |-> [c \in Callers |->
                             [pc |-> "start", arg |-> calls[c], res |-> None]]]

\* outputField := t.OutputField / inputField := t.InputField /
\* maxMem := m.MaxMemory
FieldRead(c) ==
  /\ codec.pc = "shared" /\ codec.calls[c].pc = "start"
  /\ codec.calls[c].arg.op # "ContentType"
  /\ codec' = [codec EXCEPT
                 !.calls[c].pc = "read",
                 !.calls[c].res = [local |-> fieldRead(cfg, codec.calls[c].arg.op)]]
  /\ UNCHANGED <<bufferPool, bufs, call, infer, form, json, mp, msg, cfg>>

\* if outputField == "" { outputField = "text" } and the like: the default
\* goes into the local value.
FieldDefault_WriteBack(c) ==
  /\ codec.pc = "shared" /\ codec.calls[c].pc = "read"
  /\ codec' = [codec EXCEPT
                 !.calls[c].pc = "defaulted",
                 !.calls[c].res.local = fieldDefault(codec.calls[c].arg.op, @)]
  /\ cfg' = CASE codec.calls[c].arg.op = "Marshal" ->
                   [cfg EXCEPT !.OutputField = fieldDefault("Marshal", @)]
              [] codec.calls[c].arg.op = "Unmarshal" ->
                   [cfg EXCEPT !.InputField = fieldDefault("Unmarshal", @)]
              [] OTHER -> [cfg EXCEPT !.MaxMemory = fieldDefault("NewDecoder", @)]
  /\ UNCHANGED <<bufferPool, bufs, call, infer, form, json, mp, msg>>

FieldDefault(c) ==
  /\ codec.pc = "shared" /\ codec.calls[c].pc = "read"
  /\ codec' = [codec EXCEPT
                 !.calls[c].pc = "defaulted",
                 !.calls[c].res.local = fieldDefault(codec.calls[c].arg.op, @)]
  /\ UNCHANGED <<bufferPool, bufs, call, infer, form, json, mp, msg, cfg>>

\* The rest of the call, on the local value.
CallReturn(c) ==
  /\ codec.pc = "shared" /\ codec.calls[c].pc = "defaulted"
  /\ codec' = [codec EXCEPT
                 !.calls[c].pc = "done",
                 !.calls[c].res = callResult(codec.calls[c].arg.op, codec.calls[c].res.local,
                                             codec.calls[c].arg.v, codec.calls[c].arg.data)]
  /\ UNCHANGED <<bufferPool, bufs, call, infer, form, json, mp, msg, cfg>>

\* ContentType(v): a constant, no field is read.
ContentTypeCall(c) ==
  /\ codec.pc = "shared" /\ codec.calls[c].pc = "start"
  /\ codec.calls[c].arg.op = "ContentType"
  /\ codec' = [codec EXCEPT
                 !.calls[c].pc = "done",
                 !.calls[c].res = callResult("ContentType", <<>>, NilV, <<>>)]
  /\ UNCHANGED <<bufferPool, bufs, call, infer, form, json, mp, msg, cfg>>

NextShared ==
  \E c \in Callers :
    \/ FieldRead(c)
    \/ FieldDefault(c)
    \/ CallReturn(c)
    \/ ContentTypeCall(c)

SpecShared == InitShared /\ [][NextShared]_vars

\* The result of a call made alone on the instance as it was constructed.
Isolated(inst, arg) ==
  IF arg.op = "ContentType" THEN callResult("ContentType", <<>>, NilV, <<>>)
  ELSE callResult(arg.op, fieldDefault(arg.op, fieldRead(inst, arg.op)), arg.v, arg.data)

\* C22: under every interleaving of calls on one shared marshaler the fields
\* of the marshaler stay as they were constructed (a zero MaxMemory and an
\* empty InputField / OutputField included), and every finished call has the
\* result it has when made alone.
C22_InstanceImmutable ==
  codec.pc = "shared" =>
    /\ cfg = codec.made
    /\ \A c \in Callers :
         codec.calls[c].pc = "done" =>
           codec.calls[c].res = Isolated(codec.made, codec.calls[c].arg)

\* Two calls on an instance with zero fields ran interleaved: the second
\* read its field after the first had defaulted its own, and both are done.
C22_Witness ==
  /\ codec.pc = "shared"
  /\ codec.made.OutputField = <<>> /\ codec.made.MaxMemory = 0
  /\ codec.calls[1].arg.op = "Marshal" /\ codec.calls[1].pc = "done"
  /\ codec.calls[1].res = Returned(<<72>>)
  /\ codec.calls[2].arg.op = "NewDecoder" /\ codec.calls[2].pc = "done"
  /\ codec.calls[2].res = [maxMemory |-> DefaultMaxMemory]

(***************************************************************************)
(* The Decode methods: formDecoder (marshalers.go:139-145), binaryDecoder  *)
(* (448-454), textDecoder (921-927) and multipartDecoder (522-544) over a  *)
(* reader that hands out its bytes in pieces                               *)
(***************************************************************************)

\* Bound: the number of pieces a reader hands its bytes out in.
MaxChunks == 2

\* The ways to cut s into at most n pieces, none of them empty.
RECURSIVE Chunkings(_, _)
Chunkings(s, n) ==
  IF s = <<>> THEN {<<>>}
  ELSE IF n <= 1 THEN {<<s>>}
  ELSE {<<s>>}
       \cup UNION {{<<SubSeq(s, 1, k)>> \o rest : rest \in Chunkings(From(s, k + 1), n - 1)} :
                     k \in 1..(Len(s) - 1)}

\* All the bytes of the pieces.
RECURSIVE Flatten(_)
Flatten(chunks) ==
  IF chunks = <<>> THEN <<>> ELSE Head(chunks) \o Flatten(Tail(chunks))

\* The readers: the pieces of a body, then the end of the body or an error
\* (which may also come before all the pieces were handed out).
Readers(bodies) ==
  {[chunks |-> ch, end |-> e] :
     ch \in UNION {Chunkings(b, MaxChunks) : b \in bodies}, e \in {"EOF", "error"}}

\* Form bodies: a pair, two pairs, a pair before a bad escape.
FormBodies ==
  { <<"b", "=", "4">>, <<"b", "=", "4", "&", "a", ".", "b", "=", "1">>,
    <<"b", "=", "4", "&", "%", "4">> }

\* Binary and text bodies; the second is a message on the wire until its
\* last byte is there.
ByteBodies == { <<65>>, <<10, 1, 65>> }

DecoderStart(kind, field, reader) ==
  [pc |-> "reading", kind |-> kind, field |-> field, reader |-> reader, n |-> 0,
   data |-> <<>>, readErr |-> "none", err |-> "none"]

InitDecoder ==
  /\ InitPool
  /\ infer = IdleInfer /\ form = IdleForm /\ json = IdleJson /\ mp = IdleMp
  /\ cfg = IdleCfg
  /\ \/ /\ msg \in FormTargets
        /\ \E r \in Readers(FormBodies) : codec = DecoderStart("Form", <<>>, r)
     \/ /\ msg \in {Struct("HttpBody", (NameContentType :> <<65>> @@ NameData :> <<1>>), <<>>),
                    Struct("Item", (NameName :> <<78>> @@ NameCounts :> <<1>>), <<>>),
                    OtherV}
        /\ \E r \in Readers(ByteBodies) : codec = DecoderStart("Binary", <<>>, r)
     \/ /\ msg \in {Struct("Echo", (NameText :> <<72>> @@ NameMessage :> <<77>>), <<>>),
                    Struct("Item", (NameName :> <<78>> @@ NameCounts :> <<1>>), <<>>)}
        /\ \E r \in Readers(ByteBodies), f \in {<<>>, <<"m", "e", "s", "s", "a", "g", "e">>} :
             codec = DecoderStart("Text", f, r)
     \/ /\ msg \in UploadTargets
        /\ \E r \in Readers({<<"-", "-", "X", "\r", "\n">>, <<"X", "\n">>}) :
             codec = DecoderStart("Multipart", <<>>, r)

\* One Read of io.ReadAll that gets the next piece.
ReaderRead ==
  /\ codec.pc = "reading" /\ codec.n < Len(codec.reader.chunks)
  /\ codec' = [codec EXCEPT !.n = @ + 1,
                            !.data = @ \o codec.reader.chunks[codec.n + 1]]
  /\ UNCHANGED <<bufferPool, bufs, call, infer, form, json, mp, msg, cfg>>

\* Decode(v) once io.ReadAll has returned data and err: the possible
\* outcomes [err, v, pool, bufs].
decode_IgnoreReadError(kind, field, data, err, v) ==
  CASE kind = "Form" -> formUnmarshal(data, v)
    [] kind = "Binary" ->
         {[err |-> binaryUnmarshal(data, v).err, v |-> binaryUnmarshal(data, v).v,
           pool |-> bufferPool, bufs |-> bufs]}
    [] kind = "Text" ->
         {[err |-> textUnmarshal(field, data, v).err,
           v |-> textUnmarshal(field, data, v).v, pool |-> bufferPool, bufs |-> bufs]}
    [] kind = "Multipart" ->
         {[err |-> o.err, v |-> o.v, pool |-> o.pool, bufs |-> o.bufs] :
            o \in {x \in multipartDecode(data, v) : x.err # "read"}}

decode(kind, field, data, err, v) ==
  IF err # "nil" THEN {[err |-> "read", v |-> v, pool |-> bufferPool, bufs |-> bufs]}
  ELSE CASE kind = "Form" -> formUnmarshal(data, v)
         [] kind = "Binary" ->
              {[err |-> binaryUnmarshal(data, v).err, v |-> binaryUnmarshal(data, v).v,
                pool |-> bufferPool, bufs |-> bufs]}
         [] kind = "Text" ->
              {[err |-> textUnmarshal(field, data, v).err,
                v |-> textUnmarshal(field, data, v).v, pool |-> bufferPool, bufs |-> bufs]}
         [] kind = "Multipart" ->
              {[err |-> o.err, v |-> o.v, pool |-> o.pool, bufs |-> o.bufs] :
                 o \in {x \in multipartDecode(data, v) : x.err # "read"}}

\* io.ReadAll returns, at the end of the body or at a read error, and
\* Decode goes on with what it returned.
DecodeReturn ==
  /\ codec.pc = "reading"
  /\ \E readErr \in {"nil", "error"} :
       /\ readErr = "nil" =>
            codec.n = Len(codec.reader.chunks) /\ codec.reader.end = "EOF"
       /\ readErr = "error" => codec.reader.end = "error"
       /\ \E o \in decode(codec.kind, codec.field, codec.data, readErr, msg) :
            /\ codec' = [codec EXCEPT !.pc = "done", !.readErr = readErr, !.err = o.err]
            /\ msg' = o.v
            /\ bufferPool' = o.pool
            /\ bufs' = o.bufs
  /\ UNCHANGED <<call, infer, form, json, mp, cfg>>

NextDecoder ==
  \/ ReaderRead
  \/ DecodeReturn

SpecDecoder == InitDecoder /\ [][NextDecoder]_vars

\* C23: the decoders leave the target alone while they read; a read error
\* is returned with the target as it was; otherwise all the bytes of the
\* reader were read, and for the form, binary and text decoders the error
\* and the target are those of Unmarshal on all the bytes.
C23_FullBuffering ==
  [][/\ codec'.pc = "reading" => msg' = msg
     /\ (codec.pc = "reading" /\ codec'.pc = "done") =>
          IF codec'.readErr = "error" THEN codec'.err = "read" /\ msg' = msg
          ELSE LET all == Flatten(codec.reader.chunks)
                   got == [err |-> codec'.err, v |-> msg']
               IN /\ codec.data = all
                  /\ codec.kind = "Form" =>
                       got \in {[err |-> o.err, v |-> o.v] : o \in formUnmarshal(all, msg)}
                  /\ codec.kind = "Binary" => got = binaryUnmarshal(all, msg)
                  /\ codec.kind = "Text" => got = textUnmarshal(codec.field, all, msg)]_vars

\* A form body came in two pieces, the first a complete pair, and the target
\* got both pairs.
C23_Witness ==
  /\ codec.pc = "done" /\ codec.kind = "Form" /\ codec.readErr = "nil"
  /\ codec.reader.chunks = << <<"b", "=", "4">>, <<"&", "a", ".", "b", "=", "1">> >>
  /\ codec.err = "nil" /\ msg.t = "message"
  /\ msg.f[<<"b">>].mag = <<"4">> /\ msg.f[<<"a">>].set

\* A text body was cut off by a read error after its first piece.
C23_WitnessReadError ==
  /\ codec.pc = "done" /\ codec.kind = "Text" /\ codec.readErr = "error"
  /\ codec.n = 1 /\ Len(codec.reader.chunks) = 2

(***************************************************************************)
(* Health probes: healthHandler (health.go:20-66)                          *)
(***************************************************************************)

\* Bound: the number of SetReady calls.
MaxSets == 3

\* http.StatusOK and http.StatusServiceUnavailable
StatusOK == 200
StatusServiceUnavailable == 503

healthOKResponse == "{\"status\":\"ok\"}"
healthNotReadyResponse == "{\"status\":\"not ready\"}"

NoResponse == [status |-> 0, body |-> ""]

\* What ReadinessHandler writes for the flag value it has loaded.
readinessResponse_AlwaysOK(ready) ==
  [status |-> StatusOK, body |-> healthOKResponse]

readinessResponse(ready) ==
  IF ready THEN [status |-> StatusOK, body |-> healthOKResponse]
  ELSE [status |-> StatusServiceUnavailable, body |-> healthNotReadyResponse]

\* newHealthHandler(): ready is stored true.  Every caller has one request
\* to make.
InitHealth ==
  /\ InitPool
  /\ infer = IdleInfer /\ form = IdleForm /\ json = IdleJson /\ mp = IdleMp
  /\ msg = IdleMsg
  /\ cfg = [ready |-> TRUE]
  /\ \E paths \in [Callers -> {"/healthz", "/readyz"}] :
       codec = [pc |-> "health", sets |-> 0, wrote |-> {TRUE},
                reqs |-> [c \in Callers |->
                            [pc |-> "start", path |-> paths[c], read |-> TRUE,
                             resp |-> NoResponse]]]

\* SetReady(ready): h.ready.Store(ready)
SetReady ==
  /\ codec.pc = "health" /\ codec.sets < MaxSets
  /\ \E ready \in BOOLEAN :
       /\ cfg' = [cfg EXCEPT !.ready = ready]
       /\ codec' = [codec EXCEPT !.sets = @ + 1, !.wrote = @ \cup {ready}]
  /\ UNCHANGED <<bufferPool, bufs, call, infer, form, json, mp, msg>>

\* The handler of /healthz
LivenessHandler(c) ==
  /\ codec.pc = "health" /\ codec.reqs[c].pc = "start"
  /\ codec.reqs[c].path = "/healthz"
  /\ codec' = [codec EXCEPT
                 !.reqs[c].pc = "done",
                 !.reqs[c].resp = [status |-> StatusOK, body |-> healthOKResponse]]
  /\ UNCHANGED <<bufferPool, bufs, call, infer, form, json, mp, msg, cfg>>

\* The handler of /readyz up to h.IsReady(): the atomic load
ReadinessLoad(c) ==
  /\ codec.pc = "health" /\ codec.reqs[c].pc = "start"
  /\ codec.reqs[c].path = "/readyz"
  /\ codec' = [codec EXCEPT !.reqs[c].pc = "loaded", !.reqs[c].read = cfg.ready]
  /\ UNCHANGED <<bufferPool, bufs, call, infer, form, json, mp, msg, cfg>>

\* The handler of /readyz after the load: status and body
ReadinessRespond(c) ==
  /\ codec.pc = "health" /\ codec.reqs[c].pc = "loaded"
  /\ codec' = [codec EXCEPT !.reqs[c].pc = "done",
                            !.reqs[c].resp = readinessResponse(codec.reqs[c].read)]
  /\ UNCHANGED <<bufferPool, bufs, call, infer, form, json, mp, msg, cfg>>

NextHealth ==
  \/ SetReady
  \/ \E c \in Callers :
       \/ LivenessHandler(c)
       \/ ReadinessLoad(c)
       \/ ReadinessRespond(c)

SpecHealth == InitHealth /\ [][NextHealth]_vars

\* C24: the readiness flag starts true; a /readyz request answers 200 "ok"
\* when the value it read is true and 503 "not ready" when it is false, the
\* value being one the initial state or a SetReady call wrote; a /healthz
\* request answers 200 whatever the flag is.
C24_HealthProbes ==
  codec.pc = "health" =>
    /\ codec.sets = 0 => cfg.ready
    /\ \A c \in Callers :
         /\ codec.reqs[c].pc \in {"loaded", "done"} /\ codec.reqs[c].path = "/readyz"
              => codec.reqs[c].read \in codec.wrote
         /\ codec.reqs[c].pc = "done" /\ codec.reqs[c].path = "/readyz" =>
              IF codec.reqs[c].read
              THEN codec.reqs[c].resp = [status |-> 200, body |-> healthOKResponse]
              ELSE codec.reqs[c].resp = [status |-> 503, body |-> healthNotReadyResponse]
         /\ codec.reqs[c].pc = "done" /\ codec.reqs[c].path = "/healthz" =>
              codec.reqs[c].resp = [status |-> 200, body |-> healthOKResponse]

\* A /readyz request answered 503 for a flag that is true again by the time
\* of the answer, and a /healthz request answered 200 while the flag was
\* false.
C24_Witness ==
  /\ codec.pc = "health" /\ cfg.ready /\ codec.sets = 2
  /\ codec.reqs[1].path = "/readyz" /\ codec.reqs[1].pc = "done"
  /\ codec.reqs[1].resp.status = 503
  /\ codec.reqs[2].path = "/healthz" /\ codec.reqs[2].pc = "done"

(***************************************************************************)
(* HTTP auth middleware: authMiddleware (auth.go:16-41), requiresAuth      *)
(* (124-137), matchesAnyPattern (140-147), matchPattern (151-170)          *)
(***************************************************************************)

\* Bound: the number of patterns in one list of endpoints.
MaxPatterns == 2

\* http.StatusUnauthorized
StatusUnauthorized == 401

SlashStarStar == <<"/", "*", "*">>

\* strings.HasSuffix and strings.TrimSuffix
HasSuffix(s, suf) ==
  Len(s) >= Len(suf) /\ SubSeq(s, Len(s) - Len(suf) + 1, Len(s)) = suf

TrimSuffix(s, suf) == IF HasSuffix(s, suf) THEN SubSeq(s, 1, Len(s) - Len(suf)) ELSE s

\* path.Match(pattern, name) for patterns of plain characters and "*": a
\* "*" stands for any run of characters other than "/", and the whole name
\* has to match.
RECURSIVE pathMatch(_, _)
pathMatch(pattern, name) ==
  IF pattern = <<>> THEN name = <<>>
  ELSE IF Head(pattern) = "*"
  THEN \E k \in 0..Len(name) :
         /\ ~Contains(SubSeq(name, 1, k), "/")
         /\ pathMatch(Tail(pattern), From(name, k + 1))
  ELSE name # <<>> /\ Head(name) = Head(pattern) /\ pathMatch(Tail(pattern), Tail(name))

\* matchPattern(pattern, urlPath)
matchPattern(pattern, urlPath) ==
  IF pattern = urlPath THEN TRUE
  ELSE IF HasSuffix(pattern, SlashStarStar)
  THEN HasPrefix(urlPath, TrimSuffix(pattern, SlashStarStar))
  ELSE IF Contains(pattern, "*") THEN pathMatch(pattern, urlPath)
  ELSE FALSE

\* matchesAnyPattern(urlPath, patterns): the loop over the patterns
RECURSIVE matchesAnyPattern(_, _)
matchesAnyPattern(urlPath, patterns) ==
  IF patterns = <<>> THEN FALSE
  ELSE IF matchPattern(Head(patterns), urlPath) THEN TRUE
  ELSE matchesAnyPattern(urlPath, Tail(patterns))

\* requiresAuth(urlPath, cfg), the auth function being set
requiresAuth_PublicFirst(urlPath, c) ==
  IF Len(c.publicEndpoints) > 0
  THEN ~matchesAnyPattern(urlPath, c.publicEndpoints)
  ELSE IF Len(c.protectedEndpoints) > 0
  THEN matchesAnyPattern(urlPath, c.protectedEndpoints)
  ELSE c.authFunc

requiresAuth(urlPath, c) ==
  IF Len(c.protectedEndpoints) > 0
  THEN matchesAnyPattern(urlPath, c.protectedEndpoints)
  ELSE IF Len(c.publicEndpoints) > 0
  THEN ~matchesAnyPattern(urlPath, c.publicEndpoints)
  ELSE c.authFunc

\* Patterns: /h, /a/*, /a/**, /a/v/*
EndpointPatterns ==
  { <<"/", "h">>, <<"/", "a", "/", "*">>, <<"/", "a", "/", "*", "*">>,
    <<"/", "a", "/", "v", "/", "*">> }

\* Request paths: /h, /a, /a/u, /a/v/u, /ax, /o
RequestPaths ==
  { <<"/", "h">>, <<"/", "a">>, <<"/", "a", "/", "u">>,
    <<"/", "a", "/", "v", "/", "u">>, <<"/", "a", "x">>, <<"/", "o">> }

\* A config with an auth function and any endpoint lists, and a request;
\* authErr says whether the auth function rejects the request's token.
InitAuth ==
  /\ InitPool
  /\ infer = IdleInfer /\ form = IdleForm /\ json = IdleJson /\ mp = IdleMp
  /\ msg = IdleMsg
  /\ \E pro \in SeqsUpTo(EndpointPatterns, MaxPatterns),
        pub \in SeqsUpTo(EndpointPatterns, MaxPatterns) :
       cfg = [authFunc |-> TRUE, protectedEndpoints |-> pro, publicEndpoints |-> pub]
  /\ \E p \in RequestPaths, e \in BOOLEAN :
       codec = [pc |-> "request", path |-> p, authErr |-> e, authCalled |-> FALSE,
                nextCalled |-> FALSE, status |-> 0]

\* The handler authMiddleware returns, on one request
AuthMiddleware ==
  /\ codec.pc = "request"
  /\ codec' =
       IF ~requiresAuth(codec.path, cfg)
       THEN [codec EXCEPT !.pc = "done", !.nextCalled = TRUE]
       ELSE IF codec.authErr
       THEN [codec EXCEPT !.pc = "done", !.authCalled = TRUE,
                          !.status = StatusUnauthorized]
       ELSE [codec EXCEPT !.pc = "done", !.authCalled = TRUE, !.nextCalled = TRUE]
  /\ UNCHANGED <<bufferPool, bufs, call, infer, form, json, mp, msg, cfg>>

NextAuth == AuthMiddleware

SpecAuth == InitAuth /\ [][NextAuth]_vars

\* Whether some pattern of the list matches the path.
MatchesOne(urlPath, patterns) ==
  \E i \in 1..Len(patterns) : matchPattern(patterns[i], urlPath)

\* The paths that require auth: with protected patterns the paths matching
\* one of them, else with public patterns the paths matching none of them,
\* else all.
PathRequiresAuth ==
  IF cfg.protectedEndpoints # <<>> THEN MatchesOne(codec.path, cfg.protectedEndpoints)
  ELSE IF cfg.publicEndpoints # <<>> THEN ~MatchesOne(codec.path, cfg.publicEndpoints)
  ELSE TRUE

\* C25: with an auth function configured the next handler is invoked exactly
\* when the path does not require auth or the auth function returns no
\* error; when it returns an error the answer is 401 and the next handler is
\* not invoked.
C25_AuthGating ==
  codec.pc = "done" =>
    /\ codec.nextCalled <=> (~PathRequiresAuth \/ ~codec.authErr)
    /\ codec.authCalled <=> PathRequiresAuth
    /\ (codec.authCalled /\ codec.authErr) =>
         codec.status = StatusUnauthorized /\ ~codec.nextCalled

\* With both lists set, a path matching a public pattern and a protected
\* one was refused.
C25_Witness ==
  /\ codec.pc = "done" /\ codec.status = StatusUnauthorized /\ ~codec.nextCalled
  /\ cfg.protectedEndpoints = << <<"/", "a", "/", "*", "*">> >>
  /\ cfg.publicEndpoints = << <<"/", "a", "/", "*">> >>
  /\ codec.path = <<"/", "a", "/", "u">>

(***************************************************************************)
(* The result slice of marshalJSON (marshalers.go:234-246) and             *)
(* marshalJSONWithBytes (638-650) and the storage of the pooled buffers    *)
(***************************************************************************)

\* Bound: the most bytes a writer writes.
MaxResultLen == 1

\* The byte a caller's writer writes: each caller its own.
ResultByte(p) == p

\* A byte slice is its length and the array it points into: the array of a
\* buffer (of > 0), shared with that buffer as long as the buffer keeps the
\* array, or an array of its own (of = 0) holding bytes.
OwnSlice(s) == [of |-> 0, len |-> Len(s), bytes |-> s, err |-> "nil"]
SharedSlice(b, n) == [of |-> b, len |-> n, bytes |-> <<>>, err |-> "nil"]

NoResult == [of |-> 0, len |-> 0, bytes |-> <<>>, err |-> "none"]
ErrResult == [of |-> 0, len |-> 0, bytes |-> <<>>, err |-> "unsupported type"]

\* The bytes a slice shows, given the buffers' arrays.
SliceBytes(arrays, r) ==
  IF r.of = 0 THEN r.bytes ELSE SubSeq(arrays[r.of], 1, r.len)

\* result := make([]byte, buf.Len()); copy(result, buf.Bytes()) with b the
\* buffer and n its length.
copyResult_BufBytes(arrays, b, n) == SharedSlice(b, n)

copyResult(arrays, b, n) == OwnSlice(SubSeq(arrays[b], 1, n))

\* Buffer b gives up its array (it grows into a new one, or becomes
\* garbage): the slices pointing into the old array keep it for themselves.
Detach(calls, arrays, b) ==
  [p \in Callers |->
     IF calls[p].res.of = b
     THEN [calls[p] EXCEPT !.res = OwnSlice(SliceBytes(arrays, calls[p].res))]
     ELSE calls[p]]

\* Buffer b exists: it is pooled or held.
BufferExists(b, pool, calls) == pool[b] > 0 \/ \E p \in Callers : calls[p].buf = b

\* The same for every buffer that is garbage in the new pool and buffers;
\* and the buffer a caller used is forgotten when it is garbage.
DetachGarbage(calls, arrays, pool) ==
  [p \in Callers |->
     [calls[p] EXCEPT
        !.res = IF @.of # 0 /\ ~BufferExists(@.of, pool, calls)
                THEN OwnSlice(SliceBytes(arrays, @)) ELSE @,
        !.used = IF @ # 0 /\ ~BufferExists(@, pool, calls) THEN 0 ELSE @]]

\* The number of bytes of buffer b's array that the buffer or a slice shows.
Visible(b, bs, calls) ==
  LET lens == {BufLen(bs[b])} \cup {calls[p].res.len : p \in {q \in Callers : calls[q].res.of = b}}
  IN CHOOSE n \in lens : \A m \in lens : m <= n

\* The arrays of the buffers that still exist, as far as anything shows them.
KeepArrays(arrays, pool, calls, bs) ==
  [b \in BufIds |->
     IF BufferExists(b, pool, calls)
     THEN SubSeq(arrays[b], 1, IF Visible(b, bs, calls) < Len(arrays[b])
                               THEN Visible(b, bs, calls) ELSE Len(arrays[b]))
     ELSE <<>>]

IdleAliasCall ==
  [pc |-> "idle", fn |-> "none", buf |-> 0, res |-> NoResult,
   wrote |-> <<>>, used |-> 0]

\* codec is the array of each buffer.
InitAlias ==
  /\ bufferPool = [b \in BufIds |-> 0]
  /\ bufs = [b \in BufIds |-> NewBuffer]
  /\ call = [p \in Callers |-> IdleAliasCall]
  /\ codec = [b \in BufIds |-> <<>>]
  /\ infer = IdleInfer /\ form = IdleForm /\ json = IdleJson /\ mp = IdleMp
  /\ msg = IdleMsg /\ cfg = IdleCfg

\* marshalJSON / marshalJSONWithBytes entry: buf := getBuffer(); defer
\* putBuffer(buf).  The caller's previous result is dropped.
AliasCall(p) ==
  /\ call[p].pc \in {"idle", "returned"}
  /\ \E fn \in Fns, g \in getBuffer(bufferPool, bufs) :
       /\ bufferPool' = g[2]
       /\ bufs' = g[3]
       /\ call' = [call EXCEPT ![p] = [pc |-> "acquired", fn |-> fn, buf |-> g[1],
                                       res |-> NoResult, wrote |-> <<>>,
                                       used |-> g[1]]]
       /\ codec' = KeepArrays(IF g[3] = bufs THEN codec ELSE [codec EXCEPT ![g[1]] = <<>>],
                               g[2], call', g[3])
  /\ UNCHANGED <<infer, form, json, mp, msg, cfg>>

\* One Write of one byte into the buffer: in place when the byte fits in
\* the buffer's array, and into a larger new array otherwise.
AliasWrite(p) ==
  /\ call[p].pc \in {"acquired", "writing"}
  /\ Len(bufs[call[p].buf].data) < MaxResultLen
  /\ \E c \in {ResultByte(p)} :
       LET b == call[p].buf
           n == BufLen(bufs[b])
           fits == n + 1 <= bufs[b].cap
           grown == Append(SubSeq(codec[b], 1, n), c)
           calls == IF fits THEN call ELSE Detach(call, codec, b)
       IN /\ bufs' = [bufs EXCEPT ![b] = BufWrite(@, 1)]
          /\ codec' = [codec EXCEPT ![b] = IF fits THEN grown \o From(@, n + 2)
                                           ELSE grown]
          /\ call' = [calls EXCEPT ![p].pc = "writing", ![p].wrote = Append(@, c)]
  /\ UNCHANGED <<bufferPool, infer, form, json, mp, msg, cfg>>

\* writeJSON returned nil: the result is made, the deferred putBuffer runs
\* and the function returns.
AliasReturnOk(p) ==
  /\ call[p].pc = "writing"
  /\ LET b == call[p].buf
         r == copyResult(codec, b, BufLen(bufs[b]))
         put == putBuffer(bufferPool, bufs, b)
     IN /\ bufferPool' = put[1]
        /\ bufs' = put[2]
        /\ call' = DetachGarbage([call EXCEPT ![p].pc = "returned", ![p].buf = 0,
                                              ![p].fn = "none", ![p].res = r],
                                 codec, put[1])
        /\ codec' = KeepArrays(codec, put[1], call', put[2])
  /\ UNCHANGED <<infer, form, json, mp, msg, cfg>>

\* writeJSON returned an error: the function returns (nil, err) and the
\* deferred putBuffer runs.
AliasReturnErr(p) ==
  /\ \/ call[p].pc = "writing"
     \/ call[p].pc = "acquired" /\ call[p].fn = "marshalJSON"
  /\ LET put == putBuffer(bufferPool, bufs, call[p].buf)
     IN /\ bufferPool' = put[1]
        /\ bufs' = put[2]
        /\ call' = DetachGarbage([call EXCEPT ![p].pc = "returned", ![p].buf = 0,
                                              ![p].fn = "none", ![p].res = ErrResult],
                                 codec, put[1])
        /\ codec' = KeepArrays(codec, put[1], call', put[2])
  /\ UNCHANGED <<infer, form, json, mp, msg, cfg>>

\* sync.Pool may drop a pooled item at any time (garbage collection).
AliasPoolGC(b) ==
  /\ bufferPool[b] > 0
  /\ bufferPool' = [bufferPool EXCEPT ![b] = @ - 1]
  /\ bufs' = IF bufferPool[b] = 1 /\ b \notin Held
             THEN [bufs EXCEPT ![b] = NewBuffer] ELSE bufs
  /\ call' = DetachGarbage(call, codec, bufferPool')
  /\ codec' = KeepArrays(codec, bufferPool', call', bufs')
  /\ UNCHANGED <<infer, form, json, mp, msg, cfg>>

NextAlias ==
  \/ \E p \in Callers : AliasCall(p)
  \/ \E p \in Callers : AliasWrite(p)
  \/ \E p \in Callers : AliasReturnOk(p)
  \/ \E p \in Callers : AliasReturnErr(p)
  \/ \E b \in BufIds : AliasPoolGC(b)

SpecAlias == InitAlias /\ [][NextAlias]_vars

\* C26: the bytes a marshalJSON / marshalJSONWithBytes call has returned stay
\* the bytes its writer wrote, whatever later or concurrent calls do with the
\* pooled buffer it used.
C26_ResultNotAliased ==
  \A p \in Callers :
    (call[p].pc = "returned" /\ call[p].res.err = "nil") =>
       SliceBytes(codec, call[p].res) = call[p].wrote

\* A caller holds a result while another caller has overwritten, in place,
\* the first byte of the buffer the result was made from.
C26_Witness ==
  \E p, q \in Callers :
    /\ call[p].pc = "returned" /\ call[p].res.err = "nil"
    /\ call[q].pc = "writing" /\ call[q].buf = call[p].used
    /\ call[q].wrote[1] # call[p].wrote[1]

(***************************************************************************)
(* Order of valuesToJSON's loop over the keys (marshalers.go:165-203)      *)
(***************************************************************************)

\* The tree the loop builds from the given keys when it visits them in one
\* fixed order.
RECURSIVE TreeInFixedOrder(_, _)
TreeInFixedOrder(values, keys) ==
  IF keys = {} THEN EmptyMap
  ELSE LET k == CHOOSE x \in keys : TRUE
       IN formKey(TreeInFixedOrder(values, keys \ {k}), k, values[k])

\* C27: when no supplied key's dotted path is a proper prefix of another's,
\* the tree valuesToJSON has built from the keys visited so far, and so the
\* tree it ends with, is the same in whatever order the keys are visited.
C27_TreeOrderIndependent ==
  (form.pc # "off" /\ form.kind = "form" /\ ConflictFree) =>
     form.tree = TreeInFixedOrder(form.values, DOMAIN form.values \ form.pending)

\* Two keys under the same parent and a key beside them have been converted.
C27_Witness ==
  /\ form.pc = "done" /\ form.kind = "form"
  /\ Supplied(KeyAB) /\ Supplied(KeyAC) /\ Supplied(KeyB) /\ ~Supplied(KeyA)
  /\ form.tree[KeyA].t = "object"
  /\ DOMAIN form.tree[KeyA].v = {<<"b">>, <<"c">>}

(***************************************************************************)
(* Strings through writeJSON's "%q" (marshalers.go:266-268, 297-299) and   *)
(* back through the JSON decoder of populateFromValues (148-161)           *)
(***************************************************************************)

\* Bound: the longest string written.
MaxQuoteLen == 2

QuoteAlphabet ==
  {"a", "\"", "\\", "\n", "\r", "\t", "\f", Bs, Bel, Vt, Soh, Del, BadByte,
   Eacute, Pad}

QuoteStrings == SeqsUpTo(QuoteAlphabet, MaxQuoteLen)

\* A string as the value of the tree, and as an object key.
QuoteInputs ==
  {StringV(s) : s \in QuoteStrings}
  \cup {ObjectV([k \in {s} |-> StringV(<<>>)]) : s \in QuoteStrings}

InitQuote ==
  /\ InitPool
  /\ NoCodec
  /\ infer = IdleInfer
  /\ form = IdleForm
  /\ json \in {[pc |-> "start", v |-> v, res |-> None, back |-> None] : v \in QuoteInputs}
  /\ mp = IdleMp

\* jsonMarshaler.Unmarshal(jsonData, v): the JSON text is decoded.
JSONDecodeCall ==
  /\ json.pc = "done" /\ json.res.err = "nil"
  /\ json' = [json EXCEPT !.pc = "decoded", !.back = JSONDecode(json.res.data)]
  /\ UNCHANGED <<bufferPool, bufs, call, infer, form, mp, codec, msg, cfg>>

NextQuote == MarshalJSONCall \/ JSONDecodeCall

SpecQuote == InitQuote /\ [][NextQuote]_vars

\* The string the tree holds, as value or as key.
QuoteInput ==
  IF json.v.t = "string" THEN json.v.v ELSE CHOOSE k \in DOMAIN json.v.v : TRUE

\* The written text is a JSON text that holds the string again.
ReadBack ==
  /\ json.back.ok
  /\ json.v.t = "string" => json.back.v = [t |-> "jstring", v |-> json.v.v]
  /\ json.v.t = "object" =>
       /\ json.back.v.t = "jobject"
       /\ Len(json.back.v.v) = 1
       /\ json.back.v.v[1].k = QuoteInput

\* C28 as claimed: whatever string the builder writes as a value or as an
\* object key, the bytes written are a JSON string that a JSON decoder reads
\* back as that string.
C28_StringRoundTrip == json.pc = "decoded" => ReadBack

\* The characters "%q" writes in a way JSON does not know: \a, \v and \x..
GoOnlyEscaped == {Bel, Vt, Soh, Del, BadByte}

\* The strings without such a character are read back unchanged.
RoundTripOfJSONEscapes ==
  (json.pc = "decoded" /\ \A i \in 1..Len(QuoteInput) : QuoteInput[i] \notin GoOnlyEscaped)
    => ReadBack

\* A string of a quote and an unprintable rune has been read back.
RoundTripWitness ==
  /\ json.pc = "decoded" /\ json.v.t = "string" /\ json.v.v = <<"\"", Pad>>
  /\ ReadBack

\* The payload's first LF comes before its first CRLF.
LFBeforeCRLF(data) ==
  /\ Index(data, CRLF) # 0
  /\ Index(data, LF) < Index(data, CRLF)

\* C29 as claimed: a boundary detectBoundary returns holds neither CR nor
\* LF, and when the payload's first LF comes before its first CRLF the
\* boundary of a first line that begins with "--" is the text between the
\* "--" and that LF.
C29_BoundaryWithoutTerminator ==
  mp.pc = "done" =>
    /\ ~Contains(mp.boundary, "\r") /\ ~Contains(mp.boundary, "\n")
    /\ (LFBeforeCRLF(mp.data) /\ HasPrefix(mp.data, DashDash)) =>
         mp.boundary = SubSeq(mp.data, 3, Index(mp.data, LF) - 1)

(***************************************************************************)
(* buildMarshalerOptions (marshalers.go:60-88) on a config built by        *)
(* WithJSONOptions, WithMarshaler and WithGatewayOption (options.go), and  *)
(* the mux runtime.NewServeMux makes of the options (grpckit.go:191)       *)
(***************************************************************************)

\* Bound: the number of options the user passes.
MaxOptions == 3

\* runtime.MIMEWildcard
MIMEWildcard == "*"
MIMEJSON == "application/json"

OptionMimes == {MIMEJSON, MIMEWildcard, "application/xml"}

\* The values of WithJSONOptions, the custom marshalers and the marshalers
\* of raw gateway options.
JSONOptionValues == {"jsonA", "jsonB"}
CustomMarshalers == {"customA", "customB"}
GatewayMarshalers == {"gateway"}

\* runtime.WithMarshalerOption(mime, marshaler), and a ServeMuxOption that
\* registers no marshaler.
WithMarshalerOption(mime, marshaler) ==
  [kind |-> "marshaler", mime |-> mime, marshaler |-> marshaler]

OtherMuxOption == [kind |-> "other", mime |-> "", marshaler |-> ""]

GatewayOptions ==
  {WithMarshalerOption(mime, m) : mime \in OptionMimes, m \in GatewayMarshalers}
  \cup {OtherMuxOption}

\* The orders range may visit the keys of a map in.
RangeOrders(K) ==
  {o \in [1..Cardinality(K) -> K] : \A i, j \in 1..Cardinality(K) : o[i] = o[j] => i = j}

\* buildMarshalerOptions(cfg), the loop over cfg.marshalers visiting the
\* keys in the given order.
buildMarshalerOptions_GatewayFirst(c, order) ==
  c.gatewayOptions
  \o (IF c.jsonOptions # "nil"
      THEN <<WithMarshalerOption(MIMEJSON, c.jsonOptions),
             WithMarshalerOption(MIMEWildcard, c.jsonOptions)>>
      ELSE <<>>)
  \o [i \in 1..Len(order) |-> WithMarshalerOption(order[i], c.marshalers[order[i]])]

buildMarshalerOptions(c, order) ==
  (IF c.jsonOptions # "nil"
   THEN <<WithMarshalerOption(MIMEJSON, c.jsonOptions),
          WithMarshalerOption(MIMEWildcard, c.jsonOptions)>>
   ELSE <<>>)
  \o [i \in 1..Len(order) |-> WithMarshalerOption(order[i], c.marshalers[order[i]])]
  \o c.gatewayOptions

\* The marshaler registry of a new ServeMux: the default marshaler for the
\* wildcard type.
DefaultRegistry == [k \in {MIMEWildcard} |-> "default"]

\* runtime.NewServeMux(opts...): the options are applied in order, a
\* marshaler option setting the registry's entry of its MIME type.
RECURSIVE NewServeMux(_, _)
NewServeMux(registry, opts) ==
  IF opts = <<>> THEN registry
  ELSE NewServeMux(IF Head(opts).kind = "marshaler"
                   THEN MapPut(registry, Head(opts).mime, Head(opts).marshaler)
                   ELSE registry,
                   Tail(opts))

\* newServerConfig(): no JSON options, an empty map, no gateway options.
InitOptions ==
  /\ InitPool
  /\ infer = IdleInfer /\ form = IdleForm /\ json = IdleJson /\ mp = IdleMp
  /\ msg = IdleMsg
  /\ cfg = [jsonOptions |-> "nil", marshalers |-> [k \in {} |-> ""],
            gatewayOptions |-> <<>>]
  /\ codec = [pc |-> "options", log |-> <<>>, opts |-> <<>>,
              registry |-> DefaultRegistry]

\* What the user passed: the level of the option and the option.
Passed(level, opt) == [level |-> level, mime |-> opt.mime, marshaler |-> opt.marshaler]

\* WithJSONOptions(opts)(c)
ApplyJSONOptions ==
  /\ codec.pc = "options" /\ Len(codec.log) < MaxOptions
  /\ \E o \in JSONOptionValues :
       /\ cfg' = [cfg EXCEPT !.jsonOptions = o]
       /\ codec' = [codec EXCEPT !.log =
                      Append(@, Passed("json", [mime |-> "", marshaler |-> o]))]
  /\ UNCHANGED <<bufferPool, bufs, call, infer, form, json, mp, msg>>

\* WithMarshaler(mimeType, marshaler)(c)
ApplyMarshaler ==
  /\ codec.pc = "options" /\ Len(codec.log) < MaxOptions
  /\ \E mime \in OptionMimes, m \in CustomMarshalers :
       /\ cfg' = [cfg EXCEPT !.marshalers = marshalersPut(@, mime, m)]
       /\ codec' = [codec EXCEPT !.log =
                      Append(@, Passed("custom", [mime |-> mime, marshaler |-> m]))]
  /\ UNCHANGED <<bufferPool, bufs, call, infer, form, json, mp, msg>>

\* WithGatewayOption(opt)(c)
ApplyGatewayOption ==
  /\ codec.pc = "options" /\ Len(codec.log) < MaxOptions
  /\ \E opt \in GatewayOptions :
       /\ cfg' = [cfg EXCEPT !.gatewayOptions = Append(@, opt)]
       /\ codec' = [codec EXCEPT !.log = Append(@, Passed("gateway", opt))]
  /\ UNCHANGED <<bufferPool, bufs, call, infer, form, json, mp, msg>>

\* startHTTP: gwMux := runtime.NewServeMux(buildMarshalerOptions(s.cfg)...)
StartHTTP ==
  /\ codec.pc = "options"
  /\ \E order \in RangeOrders(DOMAIN cfg.marshalers) :
       codec' = [codec EXCEPT !.pc = "built",
                              !.opts = buildMarshalerOptions(cfg, order),
                              !.registry = NewServeMux(DefaultRegistry,
                                             buildMarshalerOptions(cfg, order))]
  /\ UNCHANGED <<bufferPool, bufs, call, infer, form, json, mp, msg, cfg>>

NextOptions ==
  \/ ApplyJSONOptions
  \/ ApplyMarshaler
  \/ ApplyGatewayOption
  \/ StartHTTP

SpecOptions == InitOptions /\ [][NextOptions]_vars

\* The positions of the log where the user passed an option of the level
\* that names the MIME type (JSON options name application/json and the
\* wildcard).
PassedAt(level, mime) ==
  {i \in 1..Len(codec.log) :
     /\ codec.log[i].level = level
     /\ IF level = "json" THEN mime \in {MIMEJSON, MIMEWildcard}
        ELSE codec.log[i].mime = mime}

LastPassed(level, mime) ==
  codec.log[CHOOSE i \in PassedAt(level, mime) : \A j \in PassedAt(level, mime) : j <= i]

\* The marshaler in force for a MIME type by the claimed precedence.
ByPrecedence(mime) ==
  IF PassedAt("gateway", mime) # {} THEN LastPassed("gateway", mime).marshaler
  ELSE IF PassedAt("custom", mime) # {} THEN LastPassed("custom", mime).marshaler
  ELSE IF PassedAt("json", mime) # {} THEN LastPassed("json", mime).marshaler
  ELSE IF mime = MIMEWildcard THEN "default"
  ELSE "none"

InForce(mime) ==
  IF mime \in DOMAIN codec.registry THEN codec.registry[mime] ELSE "none"

NumJSONEntries == IF cfg.jsonOptions = "nil" THEN 0 ELSE 2
NumCustomEntries == Cardinality(DOMAIN cfg.marshalers)

\* C30: the options buildMarshalerOptions returns are the two JSON-options
\* entries (application/json, then the wildcard) when JSON options are set,
\* then one entry per custom marshaler, then the raw gateway options in the
\* order they were registered; no entry for a config without any of them;
\* and the marshaler in force for a MIME type is the gateway option's over
\* the custom marshaler's over the JSON options', in whatever order the user
\* passed the options.
C30_OptionOrder ==
  codec.pc = "built" =>
    /\ Len(codec.opts) = NumJSONEntries + NumCustomEntries + Len(cfg.gatewayOptions)
    /\ cfg.jsonOptions # "nil" =>
         /\ codec.opts[1] = WithMarshalerOption(MIMEJSON, cfg.jsonOptions)
         /\ codec.opts[2] = WithMarshalerOption(MIMEWildcard, cfg.jsonOptions)
    /\ \A mime \in DOMAIN cfg.marshalers :
         \E i \in (NumJSONEntries + 1)..(NumJSONEntries + NumCustomEntries) :
           codec.opts[i] = WithMarshalerOption(mime, cfg.marshalers[mime])
    /\ \A i \in 1..Len(cfg.gatewayOptions) :
         codec.opts[NumJSONEntries + NumCustomEntries + i] = cfg.gatewayOptions[i]
    /\ \A mime \in OptionMimes : InForce(mime) = ByPrecedence(mime)

\* The user passed a gateway option, a custom marshaler and JSON options, in
\* this order, all three naming application/json.
C30_Witness ==
  /\ codec.pc = "built"
  /\ Len(codec.log) = 3
  /\ codec.log[1].level = "gateway" /\ codec.log[1].mime = MIMEJSON
  /\ codec.log[2].level = "custom" /\ codec.log[2].mime = MIMEJSON
  /\ codec.log[3].level = "json"
  /\ InForce(MIMEJSON) = "gateway"
  /\ InForce(MIMEWildcard) = codec.log[3].marshaler

\* A config without options yields no entries.
C30_WitnessEmpty == codec.pc = "built" /\ codec.log = <<>> /\ codec.opts = <<>>

====
